---- MODULE Spec2Model ----
(***************************************************************************)
(* Temporal coherence tracker (core/temporal_coherence.py) and unified     *)
(* orchestrator (core/unified_orchestrator.py).                            *)
(*                                                                         *)
(* Numbers.  Python floats are modelled in fixed point.  Input scores are  *)
(* integers in hundredths (0.85 is 85); values the code rounds to four     *)
(* decimals (consistency, drift, stability, the indices) are integers in   *)
(* ten-thousandths (1.0 is 10000).  Comparisons against thresholds are     *)
(* made on exact integer cross-products wherever the code compares a       *)
(* quotient.  Binary floating point rounding error is not modelled.        *)
(***************************************************************************)
EXTENDS Integers, Sequences, FiniteSets, TLC

\* ------------------------------------------------------------------ bounds
MaxCap == 3          \* largest max_history a tracker is constructed with
MaxCalls == 5        \* tracker calls per behaviour
MaxAnalyses == 1     \* analyze_comprehensive calls per behaviour

\* ------------------------------------------------------------ fixed point
ONE == 10000         \* 1.0 in ten-thousandths
CENT == 100          \* 1.0 in hundredths

Abs(x) == IF x < 0 THEN -x ELSE x

\* round(a / b) to the nearest integer, b > 0
RoundDiv(a, b) == (a \div b) + (IF 2 * (a % b) >= b THEN 1 ELSE 0)

RECURSIVE SqrtIter(_, _, _)
SqrtIter(n, lo, hi) ==
    IF lo >= hi THEN lo
    ELSE LET mid == (lo + hi + 1) \div 2
         IN IF mid * mid <= n THEN SqrtIter(n, mid, hi)
                              ELSE SqrtIter(n, lo, mid - 1)

\* floor(math.sqrt(n))
ISqrt(n) == SqrtIter(n, 0, IF n < 46340 THEN n ELSE 46340)

RECURSIVE SumSeq(_)
SumSeq(s) == IF s = << >> THEN 0 ELSE Head(s) + SumSeq(Tail(s))

\* dict.get(k, default)
Get(d, k, default) == IF k \in DOMAIN d THEN d[k] ELSE default

\* list[-n:] for n >= 0 (Python: -0 is 0, so list[-0:] is the whole list)
LastN(s, n) ==
    IF n = 0 \/ n >= Len(s) THEN s ELSE SubSeq(s, Len(s) - n + 1, Len(s))

\* list[:n]
FirstN(s, n) == IF n >= Len(s) THEN s ELSE SubSeq(s, 1, n)

\* ------------------------------------------------------------- tracker data
\* str.lower() on the words of the input vocabulary
Lower(w) ==
    CASE w = "Truth" -> "truth"
      [] w = "Love" -> "love"
      [] w = "Evidence" -> "evidence"
      [] w = "Manipulation" -> "manipulation"
      [] OTHER -> w

\* the seven lexicons of _extract_semantic_signature
Lexicon ==
    [truth_density     |-> {"truth", "true", "veritas", "reality"},
     love_density      |-> {"love", "affection", "care", "compassion"},
     spiritual_density |-> {"spirit", "soul", "eternal", "divine"},
     logical_density   |-> {"therefore", "because", "thus", "hence"},
     emotional_density |-> {"feel", "emotion", "heart", "sentiment"},
     conflict_density  |-> {"conflict", "oppose", "against", "versus"},
     unity_density     |-> {"unity", "together", "harmony", "one"}]

DimSeq ==
    << "truth_density", "love_density", "spiritual_density", "logical_density",
       "emotional_density", "conflict_density", "unity_density" >>

\* a signature that counts a text without words as a text of one word
SignatureOverAtLeastOneWord(text) ==
    [d \in DOMAIN Lexicon |->
        (Cardinality({i \in DOMAIN text : Lower(text[i]) \in Lexicon[d]}) * ONE)
            \div (IF Len(text) > 1 THEN Len(text) ELSE 1)]

\* text is the list text.split(): a sequence of words
_extract_semantic_signature(text) ==
    IF text = << >> THEN [d \in {} |-> 0]
    ELSE [d \in DOMAIN Lexicon |->
            (Cardinality({i \in DOMAIN text : Lower(text[i]) \in Lexicon[d]}) * ONE)
                \div Len(text)]

_compare_semantic_signatures(sig1, sig2) ==
    LET all_keys == DOMAIN sig1 \cup DOMAIN sig2
        term(i) == IF DimSeq[i] \in all_keys
                   THEN ONE - Abs(Get(sig1, DimSeq[i], 0) - Get(sig2, DimSeq[i], 0))
                   ELSE 0
    IN IF all_keys = {} THEN ONE
       ELSE SumSeq([i \in 1..Len(DimSeq) |-> term(i)]) \div Cardinality(all_keys)

\* inputs of record / analyze: the text, the scores mapping, the themes
ScoresHigh == [truth |-> 80, fact |-> 50, lie |-> 10, coherence |-> 90, lambda |-> 520]
ScoresLow  == [truth |-> 20, fact |-> 30, lie |-> 90, coherence |-> 40, lambda |-> 120]
ScoresNone == [k \in {} |-> 0]

Inputs ==
    { [text |-> << "Truth", "and", "Love", "guide" >>, scores |-> ScoresHigh,
       themes |-> << >>],
      [text |-> << "deception", "against", "truth" >>, scores |-> ScoresLow,
       themes |-> << "power", "control", "fear" >>],
      [text |-> << >>, scores |-> ScoresNone, themes |-> << >>] }

WindowSizes == {1, 10}

\* the four (text, scores) pairs of the module's test_sequence
ScoresEvidence == [truth |-> 60, fact |-> 90, lie |-> 10, coherence |-> 80, lambda |-> 480]
ScoresHigher == [truth |-> 85, fact |-> 50, lie |-> 5, coherence |-> 90, lambda |-> 550]

test_sequence ==
    << [text |-> << "Truth", "and", "love", "guide", "us", "toward", "eternal",
                    "awakening" >>,
        scores |-> ScoresHigh, themes |-> << >>],
       [text |-> << "Evidence", "shows", "consistent", "measurements", "over",
                    "time" >>,
        scores |-> ScoresEvidence, themes |-> << >>],
       [text |-> << "Truth", "and", "love", "continue", "to", "guide", "our",
                    "path" >>,
        scores |-> ScoresHigher, themes |-> << >>],
       [text |-> << "Manipulation", "and", "deception", "are", "necessary",
                    "tools" >>,
        scores |-> ScoresLow, themes |-> << >>] >>

\* scores that leave lambda where ScoresHigh has it and move truth alone
ScoresWavering == [truth |-> 40, fact |-> 50, lie |-> 10, coherence |-> 90, lambda |-> 520]

DriftInputs ==
    { test_sequence[i] : i \in DOMAIN test_sequence }
        \cup { [text |-> << "one", "or", "another" >>, scores |-> ScoresWavering,
                themes |-> << >>] }

DriftWindowSizes == {1, 2, 10}

VARIABLES
    max_history,        \* TemporalCoherenceTracker.max_history / deque maxlen
    snapshots,          \* TemporalCoherenceTracker.snapshots, oldest first
    theme_evolution,    \* theme -> sequence of timestamps
    stability_history,  \* TemporalCoherenceTracker.stability_history
    calls,              \* inputs of the tracker calls made so far, in call order
    temporal_result     \* value returned by the last tracker call

tvars == << max_history, snapshots, theme_evolution, stability_history,
            calls, temporal_result >>

VARIABLES
    analysis_count,     \* UnifiedOrchestrator.analysis_count
    analysis_history,   \* UnifiedOrchestrator.analysis_history
    orch_call,          \* arguments and scorer outcomes of the last analyze_comprehensive
    orch_result         \* what the last analyze_comprehensive gave its caller

ovars == << analysis_count, analysis_history, orch_call, orch_result >>

VARIABLES
    assess_in,          \* scalar scores handed to the scoring functions
    assess_out          \* what the scoring functions make of assess_in

avars == << assess_in, assess_out >>

VARIABLES
    tracker_stats,      \* what the caller holds of the tracker's get_statistics
    orch_stats          \* what the caller holds of the orchestrator's get_statistics

svars == << tracker_stats, orch_stats >>

VARIABLES
    twin                \* a second TemporalCoherenceTracker, with a clock of its own

VARIABLES
    threads             \* position and locals of each caller that runs concurrently


\* ------------------------------------------------------- tracker operators
RECURSIVE SeqMax(_)
SeqMax(s) ==
    IF Len(s) = 1 THEN s[1]
    ELSE LET m == SeqMax(Tail(s)) IN IF s[1] > m THEN s[1] ELSE m

RECURSIVE SeqMin(_)
SeqMin(s) ==
    IF Len(s) = 1 THEN s[1]
    ELSE LET m == SeqMin(Tail(s)) IN IF s[1] < m THEN s[1] ELSE m

\* math.exp(-0.1 * k) in ten-thousandths (exp(-0.1) = 0.9048)
RECURSIVE ExpDecay(_)
ExpDecay(k) == IF k = 0 THEN ONE ELSE (ExpDecay(k - 1) * 9048) \div ONE

\* a deque that grows past maxlen
DequeAppendUnbounded(s, x, cap) == Append(s, x)

\* appendleft: the new element goes to the front, the overflow leaves at the back
DequeAppendLeft(s, x, cap) ==
    IF Len(s) + 1 > cap THEN SubSeq(<< x >> \o s, 1, cap) ELSE << x >> \o s

\* collections.deque(maxlen = cap).append(x)
DequeAppend(s, x, cap) ==
    IF cap = 0 THEN << >>
    ELSE IF Len(s) >= cap THEN Append(Tail(s), x)
    ELSE Append(s, x)

\* the TemporalSnapshot built by record_snapshot; the timestamp is the
\* position of the call in the tracker's life
TemporalSnapshot(ts, text, truth, fact, lie, coherence, lam, themes) ==
    [timestamp |-> ts, text |-> text, truth_score |-> truth, fact_score |-> fact,
     lie_score |-> lie, coherence_score |-> coherence, lambda_value |-> lam,
     semantic_signature |-> _extract_semantic_signature(text),
     key_themes |-> themes]

\* a theme index that keeps the first theme of a snapshot only
TrackFirstTheme(te, themes, ts) ==
    IF themes = << >> THEN te
    ELSE [k \in DOMAIN te \cup {Head(themes)} |->
             IF k = Head(themes) THEN Append(Get(te, k, << >>), ts) ELSE te[k]]

\* self.theme_evolution[theme].append(...) for each theme of the snapshot
RECURSIVE TrackThemes(_, _, _)
TrackThemes(te, themes, ts) ==
    IF themes = << >> THEN te
    ELSE LET t == Head(themes)
             te1 == [k \in DOMAIN te \cup {t} |->
                        IF k = t THEN Append(Get(te, t, << >>), ts) ELSE te[k]]
         IN TrackThemes(te1, Tail(themes), ts)

_calculate_consistency(current, history) ==
    LET prior == FirstN(history, Len(history) - 1)
        n == Len(prior)
        \* weights 0.25 / 0.2 / 0.2 / 0.15 / 0.2; hundredths * 25 is ten-thousandths
        combined(past) ==
            (CENT - Abs(current.truth_score - past.truth_score)) * 25
          + (CENT - Abs(current.fact_score - past.fact_score)) * 20
          + (CENT - Abs(current.lie_score - past.lie_score)) * 20
          + (CENT - Abs(current.coherence_score - past.coherence_score)) * 15
          + (_compare_semantic_signatures(current.semantic_signature,
                                          past.semantic_signature) * 20) \div 100
        weighted_sum == SumSeq([i \in 1..n |-> combined(prior[i]) * ExpDecay(n - i)])
        weight_sum == SumSeq([i \in 1..n |-> ExpDecay(n - i)])
    IN IF history = << >> THEN ONE
       ELSE IF weight_sum > 0 THEN RoundDiv(weighted_sum, weight_sum)
       ELSE ONE \div 2

\* the snapshot just before the current one
DriftBaselinePrevious(history) == history[Len(history) - 1]

\* baseline = history[0]
DriftBaseline(history) == history[1]

\* returns << drift_magnitude, drift_direction >>
_analyze_drift(current, history) ==
    LET baseline == DriftBaseline(history)
        truth_drift == current.truth_score - baseline.truth_score
        fact_drift == current.fact_score - baseline.fact_score
        lie_drift == current.lie_score - baseline.lie_score
        lambda_drift == current.lambda_value - baseline.lambda_value
        sig_term(i) ==
            IF DimSeq[i] \in DOMAIN current.semantic_signature
               /\ DimSeq[i] \in DOMAIN baseline.semantic_signature
            THEN Abs(current.semantic_signature[DimSeq[i]]
                     - baseline.semantic_signature[DimSeq[i]])
            ELSE 0
        semantic_drift == SumSeq([i \in 1..Len(DimSeq) |-> sig_term(i)])
        \* sum of squares in ten-thousandths
        squares == truth_drift * truth_drift + fact_drift * fact_drift
                   + lie_drift * lie_drift + lambda_drift * lambda_drift
                   + (semantic_drift * semantic_drift) \div ONE
        \* sqrt(squares) in thousandths, divided by 5.0, in ten-thousandths
        drift_magnitude == 2 * ISqrt(squares * 100)
        direction ==
            IF truth_drift > 20 /\ lie_drift < -10 THEN "toward_truth"
            ELSE IF truth_drift < -20 /\ lie_drift > 10 THEN "toward_deception"
            ELSE IF Abs(truth_drift) < 10 /\ Abs(lie_drift) < 10 THEN "stable"
            ELSE IF lambda_drift > 30 THEN "ascending"
            ELSE IF lambda_drift < -30 THEN "descending"
            ELSE "oscillating"
    IN IF Len(history) < 2 THEN << 0, "stable" >>
       ELSE << drift_magnitude, direction >>

\* least squares whose points all share the abscissa n - 1
LeastSquaresAtOneAbscissa(y) ==
    LET n == Len(y)
        sum_x == SumSeq([i \in 1..n |-> n - 1])
        sum_y == SumSeq(y)
        sum_xy == SumSeq([i \in 1..n |-> (n - 1) * y[i]])
        sum_xx == SumSeq([i \in 1..n |-> (n - 1) * (n - 1)])
    IN << n * sum_xy - sum_x * sum_y, n * sum_xx - sum_x * sum_x >>

\* least squares over x = 0..n-1: << n*sum_xy - sum_x*sum_y, n*sum_xx - sum_x^2 >>
LeastSquares(y) ==
    LET n == Len(y)
        sum_x == SumSeq([i \in 1..n |-> i - 1])
        sum_y == SumSeq(y)
        sum_xy == SumSeq([i \in 1..n |-> (i - 1) * y[i]])
        sum_xx == SumSeq([i \in 1..n |-> (i - 1) * (i - 1)])
    IN << n * sum_xy - sum_x * sum_y, n * sum_xx - sum_x * sum_x >>

\* a trajectory whose regression runs over the snapshots' timestamps
TrajectoryOverElapsedTime(history) ==
    LET n == Len(history)
        y == [i \in 1..n |-> history[i].lambda_value]
        x == [i \in 1..n |-> history[i].timestamp - history[1].timestamp]
        sum_x == SumSeq(x)
        sum_y == SumSeq(y)
        sum_xy == SumSeq([i \in 1..n |-> x[i] * y[i]])
        sum_xx == SumSeq([i \in 1..n |-> x[i] * x[i]])
        den == n * sum_xx - sum_x * sum_x
        num == IF den # 0 THEN n * sum_xy - sum_x * sum_y ELSE 0
    IN IF n < 3 THEN "insufficient_data"
       ELSE IF num * 10 > den THEN "awakening"
       ELSE IF num * 10 < -den THEN "declining"
       ELSE IF SeqMax(y) - SeqMin(y) > CENT THEN "volatile"
       ELSE "stable"

_determine_evolution_trajectory(history) ==
    LET lambda_values == [i \in 1..Len(history) |-> history[i].lambda_value]
        ls == LeastSquares(lambda_values)
        num == IF ls[2] # 0 THEN ls[1] ELSE 0
        den == IF ls[2] # 0 THEN ls[2] ELSE 1
    IN IF Len(history) < 3 THEN "insufficient_data"
       ELSE IF num * 10 > den THEN "awakening"           \* slope > 0.1
       ELSE IF num * 10 < -den THEN "declining"          \* slope < -0.1
       ELSE IF SeqMax(lambda_values) - SeqMin(lambda_values) > CENT THEN "volatile"
       ELSE "stable"

\* population variance in ten-thousandths
_calculate_variance(values) ==
    LET n == Len(values)
        s == SumSeq(values)
        ss == SumSeq([i \in 1..n |-> values[i] * values[i]])
    IN IF values = << >> THEN 0 ELSE (n * ss - s * s) \div (n * n)

\* the unrounded stability, in ten-thousandths
_calculate_stability_index(history) ==
    LET n == Len(history)
        truth_variance == _calculate_variance([i \in 1..n |-> history[i].truth_score])
        lambda_variance == _calculate_variance([i \in 1..n |-> history[i].lambda_value])
        coherence_variance ==
            _calculate_variance([i \in 1..n |-> history[i].coherence_score])
        variance_sum == truth_variance + lambda_variance + coherence_variance
    IN IF n < 2 THEN ONE
       \* 1 / (1 + (variance_sum / 3) * 10)
       ELSE RoundDiv(3000 * ONE, 3000 + variance_sum)

\* 100 * a / b rounded to the nearest integer, b > 0 (hundredths to ten-thousandths)
ScaledDiv(a, b) == 100 * (a \div b) + RoundDiv(100 * (a % b), b)

\* abs(cur - mean(vals)) > 2 * std(vals), compared exactly on the squares
Deviates(cur, vals) ==
    LET n == Len(vals)
        s == SumSeq(vals)
        ss == SumSeq([i \in 1..n |-> vals[i] * vals[i]])
        d == n * cur - s
    IN d * d > 4 * (n * ss - s * s)

\* set(list)
ToSet(s) == {s[i] : i \in DOMAIN s}

\* each anomaly is reduced to its type and severity
\* recent = history[-5:] if len(history) >= 5 else history[:-1]
AnomalyPopulation(history) ==
    IF Len(history) >= 5 THEN LastN(history, 5)
    ELSE FirstN(history, Len(history) - 1)

_detect_temporal_anomalies(current, history) ==
    LET recent == AnomalyPopulation(history)
        truths == [i \in 1..Len(recent) |-> recent[i].truth_score]
        lambdas == [i \in 1..Len(recent) |-> recent[i].lambda_value]
        prev_themes == ToSet(history[Len(history) - 1].key_themes)
        curr_themes == ToSet(current.key_themes)
    IN IF Len(history) < 2 THEN << >>
       ELSE (IF Deviates(current.truth_score, truths)
             THEN << [type |-> "Truth Score Anomaly", severity |-> "high"] >>
             ELSE << >>)
         \o (IF Deviates(current.lambda_value, lambdas)
             THEN << [type |-> "Lambda Anomaly", severity |-> "high"] >>
             ELSE << >>)
         \o (IF Cardinality(curr_themes \ prev_themes) >= 3
             THEN << [type |-> "Theme Shift", severity |-> "medium"] >>
             ELSE << >>)
         \o (IF Cardinality(prev_themes \ curr_themes) >= 3
             THEN << [type |-> "Theme Loss", severity |-> "medium"] >>
             ELSE << >>)

TrendOf(series) ==
    [direction |-> IF series[Len(series)] > series[1] THEN "increasing"
                   ELSE "decreasing",
     magnitude |-> Abs(series[Len(series)] - series[1]),
     volatility |-> _calculate_variance(series)]

\* trends drawn as soon as two snapshots can be compared
TrendsFromTwoSnapshots(history) ==
    LET n == Len(history)
    IN IF n < 2 THEN [status |-> "insufficient_data"]
       ELSE [truth |-> TrendOf([i \in 1..n |-> history[i].truth_score]),
             lambda |-> TrendOf([i \in 1..n |-> history[i].lambda_value]),
             coherence |-> TrendOf([i \in 1..n |-> history[i].coherence_score])]

_analyze_trends(history) ==
    LET n == Len(history)
    IN IF n < 3 THEN [status |-> "insufficient_data"]
       ELSE [truth |-> TrendOf([i \in 1..n |-> history[i].truth_score]),
             lambda |-> TrendOf([i \in 1..n |-> history[i].lambda_value]),
             coherence |-> TrendOf([i \in 1..n |-> history[i].coherence_score])]

_generate_predictions(history, trends) ==
    LET n == Len(history)
        y == [i \in 1..n |-> history[i].lambda_value]
        ls == LeastSquares(y)
        num == ls[1]
        denominator == ls[2]
        sum_x == SumSeq([i \in 1..n |-> i - 1])
        \* slope * n + intercept = (num * (n*n - sum_x) + sum_y * den) / (den * n)
        predicted == ScaledDiv(num * (n * n - sum_x) + SumSeq(y) * denominator,
                               denominator * n)
    IN IF n < 3 \/ Get(trends, "status", "") = "insufficient_data"
       THEN [status |-> "insufficient_data"]
       ELSE IF n < 2 THEN [status |-> "insufficient_data"]
       ELSE IF denominator = 0 THEN [status |-> "unable_to_predict"]
       ELSE [next_lambda |-> predicted,
             confidence |-> IF trends.lambda.volatility < 1000 THEN "high"
                            ELSE IF trends.lambda.volatility < 3000 THEN "medium"
                            ELSE "low",
             trend_direction |-> trends.lambda.direction,
             expected_change |-> ScaledDiv(num, denominator)]

HighSeverity(anomalies) == SelectSeq(anomalies, LAMBDA a : a.severity = "high")

CriticalRecommendation(n) ==
    IF n = 1 THEN "CRITICAL: 1 high-severity temporal anomalies detected"
    ELSE "CRITICAL: 2 high-severity temporal anomalies detected"

_generate_temporal_recommendations(consistency, drift, stability, anomalies) ==
       (IF consistency < 5000
        THEN << "Low temporal consistency detected - review for narrative drift or inconsistencies" >>
        ELSE << >>)
    \o (IF drift > 5000
        THEN << "High semantic drift detected - significant change from baseline narrative" >>
        ELSE << >>)
    \o (IF stability < 5000
        THEN << "Low stability index - high volatility in metrics suggests unstable state" >>
        ELSE << >>)
    \o (IF HighSeverity(anomalies) # << >>
        THEN << CriticalRecommendation(Len(HighSeverity(anomalies))) >>
        ELSE << >>)
    \o (IF consistency > 8000 /\ stability > 8000
        THEN << "Excellent temporal coherence - consistent and stable over time" >>
        ELSE << >>)

_create_baseline_result(snapshot) ==
    [returned |-> "analysis",
     current_snapshot |-> snapshot,
     consistency_score |-> ONE,
     drift_magnitude |-> 0,
     drift_direction |-> "baseline",
     evolution_trajectory |-> "establishing_baseline",
     stability_index |-> ONE,
     anomalous_changes |-> << >>,
     trend_analysis |-> [status |-> "baseline"],
     predictions |-> [status |-> "baseline"],
     recommendations |->
        << "Baseline established - continue monitoring for temporal patterns" >>,
     metadata |-> [note |-> "First analysis - no historical comparison available"]]

\* the result analyze_temporal_coherence builds once the store holds the
\* current snapshot and at least one more
FullResult(current_snapshot, store, window_size) ==
    LET recent_snapshots == LastN(store, window_size)
        consistency_score == _calculate_consistency(current_snapshot, recent_snapshots)
        drift == _analyze_drift(current_snapshot, recent_snapshots)
        stability_index == _calculate_stability_index(recent_snapshots)
        anomalous_changes ==
            _detect_temporal_anomalies(current_snapshot, recent_snapshots)
        trend_analysis == _analyze_trends(recent_snapshots)
    IN [returned |-> "analysis",
        current_snapshot |-> current_snapshot,
        consistency_score |-> consistency_score,
        drift_magnitude |-> drift[1],
        drift_direction |-> drift[2],
        evolution_trajectory |-> _determine_evolution_trajectory(recent_snapshots),
        stability_index |-> stability_index,
        anomalous_changes |-> anomalous_changes,
        trend_analysis |-> trend_analysis,
        predictions |-> _generate_predictions(recent_snapshots, trend_analysis),
        recommendations |->
            _generate_temporal_recommendations(consistency_score, drift[1],
                                               stability_index, anomalous_changes),
        metadata |-> [window_size |-> window_size, total_snapshots |-> Len(store)]]

\* the baseline test with the bound off by one either way
NoHistoryNever(store) == Len(store) < 1
NoHistoryTwice(store) == Len(store) < 3

\* len(self.snapshots) < 2: not enough history for temporal analysis
NoHistory(store) == Len(store) < 2

\* the snapshot a call with input in records as the ts-th call
SnapshotOf(in, ts) ==
    TemporalSnapshot(ts, in.text,
                     Get(in.scores, "truth", 0), Get(in.scores, "fact", 0),
                     Get(in.scores, "lie", 0), Get(in.scores, "coherence", 0),
                     Get(in.scores, "lambda", 0), in.themes)

\* ------------------------------------------------------ tracker divisions
\* a signature whose densities are computed for every text, words or not
SignatureDividesAlways(text) == TRUE

\* if not words: return {}  -- the densities divide by len(words) only past it
SignatureDivides(text) == text # << >>

\* << site, denominator >> of every division record_snapshot executes
RecordDivisions(in) ==
    IF SignatureDivides(in.text) THEN { << "len(words)", Len(in.text) >> } ELSE {}

\* << site, denominator >> of every division the phases of
\* analyze_temporal_coherence execute on the window history
AnalyzeDivisions(current, history) ==
    LET n == Len(history)
        prior == FirstN(history, n - 1)
        keys(past) == DOMAIN current.semantic_signature \cup DOMAIN past.semantic_signature
        weight_sum == SumSeq([i \in 1..Len(prior) |-> ExpDecay(Len(prior) - i)])
        denominator == LeastSquares([i \in 1..n |-> history[i].lambda_value])[2]
        variance_sum ==
            _calculate_variance([i \in 1..n |-> history[i].truth_score])
          + _calculate_variance([i \in 1..n |-> history[i].lambda_value])
          + _calculate_variance([i \in 1..n |-> history[i].coherence_score])
        recent == AnomalyPopulation(history)
    IN  \* _compare_semantic_signatures: if not all_keys: return 1.0
        { << "len(all_keys)", Cardinality(keys(prior[i])) >> :
             i \in { j \in DOMAIN prior : keys(prior[j]) # {} } }
        \* _calculate_consistency: ... if weight_sum > 0 else 0.5
        \cup (IF history # << >> /\ weight_sum > 0
              THEN { << "weight_sum", weight_sum >> } ELSE {})
        \* _determine_evolution_trajectory: ... if denominator != 0 else 0
        \cup (IF n >= 3 /\ denominator # 0
              THEN { << "trajectory denominator", denominator >> } ELSE {})
        \* _calculate_stability_index: variances of n values, 1.0 / (1.0 + ...)
        \cup (IF n >= 2
              THEN { << "len(values)", n >>, << "1.0 + combined_variance * 10.0",
                                               3000 + variance_sum >> }
              ELSE {})
        \* _detect_temporal_anomalies: means and variances of recent
        \cup (IF n >= 2 THEN { << "len(recent)", Len(recent) >> } ELSE {})
        \* _analyze_trends: variances of n values
        \cup (IF n >= 3 THEN { << "len(values)", n >> } ELSE {})
        \* _generate_predictions: if denominator == 0: return unable_to_predict
        \cup (IF n >= 3 /\ denominator # 0
              THEN { << "denominator", denominator >>, << "n", n >> } ELSE {})

\* some division of the set runs with a zero denominator: ZeroDivisionError
DividesByZero(divisions) == \E d \in divisions : d[2] = 0

ZeroDivisionError(call) ==
    [returned |-> "exception", call |-> call, raised |-> "ZeroDivisionError"]

\* ---------------------------------------------------------- tracker actions
\* the callers that may run concurrently; none has started a call
Callers == { 1, 2 }

NoThreads == [t \in Callers |-> [pc |-> "idle", made |-> 0]]

\* the fields of a freshly constructed second tracker; clock is its datetime.now()
TwinNew ==
    [snapshots |-> << >>, theme_evolution |-> [t \in {} |-> << >>],
     stability_history |-> << >>, clock |-> 0, result |-> [returned |-> "none"]]

\* TemporalCoherenceTracker.__init__(max_history = cap)
TrackerNew(cap) ==
    /\ max_history = cap
    /\ snapshots = << >>
    /\ theme_evolution = [t \in {} |-> << >>]
    /\ stability_history = << >>
    /\ calls = << >>
    /\ temporal_result = [returned |-> "none"]

TrackerInit == \E cap \in 1..MaxCap : TrackerNew(cap)

\* UnifiedOrchestrator.__init__
OrchestratorInit ==
    /\ analysis_count = 0
    /\ analysis_history = << >>
    /\ orch_call = [made |-> FALSE]
    /\ orch_result = [returned |-> "none"]

record_snapshot(in) ==
    /\ Len(calls) < MaxCalls
    /\ LET snapshot == SnapshotOf(in, Len(calls) + 1)
       IN IF DividesByZero(RecordDivisions(in))
          THEN /\ temporal_result' = ZeroDivisionError("record_snapshot")
               /\ calls' = Append(calls, in)
               /\ UNCHANGED << snapshots, theme_evolution >>
          ELSE /\ snapshots' = DequeAppend(snapshots, snapshot, max_history)
               /\ theme_evolution' =
                     TrackThemes(theme_evolution, snapshot.key_themes,
                                 snapshot.timestamp)
               /\ calls' = Append(calls, in)
               /\ temporal_result' =
                     [returned |-> "snapshot", current_snapshot |-> snapshot]
    /\ UNCHANGED << max_history, stability_history >>

\* the body of TemporalCoherenceTracker.analyze_temporal_coherence
TrackerAnalyze(in, window_size) ==
    /\ LET current_snapshot == SnapshotOf(in, Len(calls) + 1)
           store == DequeAppend(snapshots, current_snapshot, max_history)
           result == IF NoHistory(store) THEN _create_baseline_result(current_snapshot)
                     ELSE FullResult(current_snapshot, store, window_size)
       IN IF DividesByZero(RecordDivisions(in))
          THEN \* raised inside record_snapshot, before the append
               /\ temporal_result' = ZeroDivisionError("analyze_temporal_coherence")
               /\ calls' = Append(calls, in)
               /\ UNCHANGED << snapshots, theme_evolution, stability_history >>
          ELSE IF ~NoHistory(store)
                  /\ DividesByZero(AnalyzeDivisions(current_snapshot,
                                                    LastN(store, window_size)))
          THEN \* raised in a phase, after the snapshot was recorded
               /\ snapshots' = store
               /\ theme_evolution' =
                     TrackThemes(theme_evolution, current_snapshot.key_themes,
                                 current_snapshot.timestamp)
               /\ temporal_result' = ZeroDivisionError("analyze_temporal_coherence")
               /\ calls' = Append(calls, in)
               /\ UNCHANGED stability_history
          ELSE /\ snapshots' = store
               /\ theme_evolution' =
                     TrackThemes(theme_evolution, current_snapshot.key_themes,
                                 current_snapshot.timestamp)
               /\ stability_history' =
                     IF NoHistory(store) THEN stability_history
                     ELSE Append(stability_history, result.stability_index)
               /\ calls' = Append(calls, in)
               /\ temporal_result' = result
    /\ UNCHANGED max_history

analyze_temporal_coherence(in, window_size) ==
    /\ Len(calls) < MaxCalls
    /\ TrackerAnalyze(in, window_size)

vars == << max_history, snapshots, theme_evolution, stability_history, calls,
           temporal_result, analysis_count, analysis_history, orch_call,
           orch_result, assess_in, assess_out, tracker_stats, orch_stats, twin, threads >>

\* no scores are being assessed and no statistics were asked for
AssessIdle ==
    /\ assess_in = [given |-> FALSE]
    /\ assess_out = [returned |-> "none"]
    /\ tracker_stats = [returned |-> "none"]
    /\ orch_stats = [returned |-> "none"]
    /\ twin = TwinNew
    /\ threads = NoThreads

Init == TrackerInit /\ OrchestratorInit /\ AssessIdle

TrackerNext ==
    \/ \E in \in Inputs : record_snapshot(in) /\ UNCHANGED << ovars, avars, svars, twin, threads >>
    \/ \E in \in Inputs, w \in WindowSizes :
          analyze_temporal_coherence(in, w) /\ UNCHANGED << ovars, avars, svars, twin, threads >>

SpecTracker == Init /\ [][TrackerNext]_vars

\* the caller records first and analyzes second; later calls are free
RecordFirstNext ==
    \/ /\ calls = << >>
       /\ \E in \in Inputs : record_snapshot(in) /\ UNCHANGED << ovars, avars, svars, twin, threads >>
    \/ /\ Len(calls) = 1
       /\ \E in \in Inputs, w \in WindowSizes :
             analyze_temporal_coherence(in, w) /\ UNCHANGED << ovars, avars, svars, twin, threads >>
    \/ /\ Len(calls) >= 2
       /\ \E in \in Inputs : record_snapshot(in) /\ UNCHANGED << ovars, avars, svars, twin, threads >>
    \/ /\ Len(calls) >= 2
       /\ \E in \in Inputs, w \in WindowSizes :
             analyze_temporal_coherence(in, w) /\ UNCHANGED << ovars, avars, svars, twin, threads >>

SpecRecordFirst == Init /\ [][RecordFirstNext]_vars

MaxDriftCalls == 3          \* analyses made when the drift is studied

\* a caller that only analyzes, with the test_sequence inputs
DriftNext ==
    \E in \in DriftInputs, w \in DriftWindowSizes :
        /\ Len(calls) < MaxDriftCalls
        /\ analyze_temporal_coherence(in, w)
        /\ UNCHANGED << ovars, avars, svars, twin, threads >>

SpecDrift == Init /\ [][DriftNext]_vars


\* ------------------------------------------------------ orchestrator scoring
\* an index that wraps around the ends of the scale
Clamp10Wrapping(x) == x % (10 * ONE)

\* max(0.0, min(10.0, x)) in ten-thousandths
Clamp10(x) == IF x < 0 THEN 0 ELSE IF x > 10 * ONE THEN 10 * ONE ELSE x

\* lambda_res.get('metrics', {}).get('composite_resonance', 0.0)
LambdaScore(lambda_res) ==
    Get(Get(lambda_res, "metrics", [k \in {} |-> 0]), "composite_resonance", 0)

\* scorer scores are hundredths, temporal scores and the indices ten-thousandths
_unify_scores(lambda_res, discern, pattern, temporal) ==
    LET lambda_score == LambdaScore(lambda_res)
        truth_score == Get(discern, "truth_score", 0)
        authenticity_score == Get(pattern, "authenticity_score", 0)
        coherence_score == Get(discern, "coherence_score", 0)
        consistency_score == Get(temporal, "consistency_score", 0)
        lie_score == Get(discern, "lie_score", 0)
        manipulation_score == Get(pattern, "manipulation_score", 0)
        truth_index ==
            truth_score * 300 + authenticity_score * 250 + lambda_score * 30
            + coherence_score * 200 + consistency_score * 2
            - lie_score * 200 - manipulation_score * 300
        integrity_index ==
            coherence_score * 300 + Get(pattern, "structural_integrity", 50) * 300
            + consistency_score * 2 + Get(temporal, "stability_index", 5000) * 2
        risk_index ==
            manipulation_score * 400 + lie_score * 300
            + (CENT - authenticity_score) * 200 + Get(temporal, "drift_magnitude", 0)
    IN [truth_index |-> Clamp10(truth_index),
        integrity_index |-> Clamp10(integrity_index),
        risk_index |-> Clamp10(risk_index),
        awakening_index |-> lambda_score * 60,
        component_scores |->
            [lambda |-> lambda_score, truth |-> truth_score,
             authenticity |-> authenticity_score, coherence |-> coherence_score,
             consistency |-> consistency_score, manipulation |-> manipulation_score,
             lie |-> lie_score]]

\* the decision table with NEUTRAL tested ahead of TRUTH_SEEKING
OverallStatusNeutralFirst(truth_index, risk_index) ==
    IF truth_index >= 8 * ONE /\ risk_index < 2 * ONE THEN "TRUTH_ALIGNED"
    ELSE IF truth_index >= 4 * ONE /\ risk_index < 5 * ONE THEN "NEUTRAL"
    ELSE IF truth_index >= 6 * ONE /\ risk_index < 3 * ONE THEN "TRUTH_SEEKING"
    ELSE IF risk_index >= 7 * ONE THEN "HIGH_RISK"
    ELSE IF risk_index >= 5 * ONE THEN "CAUTION_ADVISED"
    ELSE "UNCLEAR"

OverallStatus(truth_index, risk_index) ==
    IF truth_index >= 8 * ONE /\ risk_index < 2 * ONE THEN "TRUTH_ALIGNED"
    ELSE IF truth_index >= 6 * ONE /\ risk_index < 3 * ONE THEN "TRUTH_SEEKING"
    ELSE IF truth_index >= 4 * ONE /\ risk_index < 5 * ONE THEN "NEUTRAL"
    ELSE IF risk_index >= 7 * ONE THEN "HIGH_RISK"
    ELSE IF risk_index >= 5 * ONE THEN "CAUTION_ADVISED"
    ELSE "UNCLEAR"

\* the risk levels with strict comparisons
RiskLevelStrict(risk_index) ==
    IF risk_index > 7 * ONE THEN "CRITICAL"
    ELSE IF risk_index > 5 * ONE THEN "HIGH"
    ELSE IF risk_index > 3 * ONE THEN "MEDIUM"
    ELSE IF risk_index > 1 * ONE THEN "LOW"
    ELSE "MINIMAL"

RiskLevel(risk_index) ==
    IF risk_index >= 7 * ONE THEN "CRITICAL"
    ELSE IF risk_index >= 5 * ONE THEN "HIGH"
    ELSE IF risk_index >= 3 * ONE THEN "MEDIUM"
    ELSE IF risk_index >= 1 * ONE THEN "LOW"
    ELSE "MINIMAL"

\* returns << status, overall_confidence, risk_level >>
_assess_overall(unified, discern, pattern, temporal) ==
    LET truth_index == unified.truth_index
        risk_index == unified.risk_index
        discern_confidence == Get(discern, "confidence", 50)
        temporal_stability == Get(temporal, "stability_index", 5000)
        \* 0.4 * confidence + 0.3 * stability + 0.3 * (1 - risk / 10)
        overall_confidence ==
            RoundDiv(discern_confidence * 4000 + temporal_stability * 30
                     + (10 * ONE - risk_index) * 3, 100)
    IN << OverallStatus(truth_index, risk_index), overall_confidence,
          RiskLevel(risk_index) >>

\* the warning texts carry a count; the leading warning sign is left out
ViolationsWarning(n) ==
    IF n = 1 THEN "1 covenant violations detected"
    ELSE IF n = 2 THEN "2 covenant violations detected"
    ELSE "3 covenant violations detected"

AnomaliesWarning(n) ==
    IF n = 1 THEN "1 critical temporal anomalies detected"
    ELSE "2 critical temporal anomalies detected"

\* a risk warning for CRITICAL only
RiskWarningCriticalOnly(risk_level) ==
    IF risk_level = "CRITICAL"
    THEN << "CRITICAL RISK: Multiple severe issues detected - immediate action required" >>
    ELSE << >>

\* the risk-based warnings
RiskWarning(risk_level) ==
    IF risk_level = "CRITICAL"
    THEN << "CRITICAL RISK: Multiple severe issues detected - immediate action required" >>
    ELSE IF risk_level = "HIGH"
    THEN << "HIGH RISK: Significant concerns identified - careful review needed" >>
    ELSE << >>

\* returns << recommendations, warnings, action_items >>
_generate_comprehensive_recommendations(unified, discern, pattern, temporal, risk_level) ==
    LET truth_index == unified.truth_index
        manipulation_score == unified.component_scores.manipulation
        violations == Get(discern, "violations", << >>)
        drift_magnitude == Get(temporal, "drift_magnitude", 0)
        critical_anomalies == HighSeverity(Get(temporal, "anomalous_changes", << >>))
        recommendations ==
              (IF truth_index < 4 * ONE
               THEN << "Increase truth content: Incorporate eternal principles and verifiable facts" >>
               ELSE IF truth_index >= 8 * ONE
               THEN << "Excellent truth alignment maintained" >>
               ELSE << >>)
           \o FirstN(Get(pattern, "recommendations", << >>), 2)
           \o FirstN(Get(temporal, "recommendations", << >>), 2)
        warnings ==
              RiskWarning(risk_level)
           \o (IF manipulation_score > 70
               THEN << "High manipulation score - multiple manipulation tactics detected" >>
               ELSE IF manipulation_score > 40
               THEN << "Moderate manipulation patterns detected" >>
               ELSE << >>)
           \o (IF violations # << >> THEN << ViolationsWarning(Len(violations)) >>
               ELSE << >>)
           \o (IF drift_magnitude > 5000
               THEN << "High semantic drift detected - significant change from baseline" >>
               ELSE << >>)
           \o (IF critical_anomalies # << >>
               THEN << AnomaliesWarning(Len(critical_anomalies)) >>
               ELSE << >>)
        action_items ==
              (IF truth_index < 4 * ONE THEN << "Review content for truth alignment" >>
               ELSE << >>)
           \o (IF manipulation_score > 70
               THEN << "Remove manipulative language immediately" >>
               ELSE IF manipulation_score > 40
               THEN << "Review for manipulative language" >>
               ELSE << >>)
           \o (IF violations # << >> THEN << "Address covenant violations" >> ELSE << >>)
           \o (IF drift_magnitude > 5000 THEN << "Review narrative consistency" >>
               ELSE << >>)
    IN << recommendations, warnings, action_items >>

_create_fallback_lambda ==
    [metrics |-> [composite_resonance |-> 0, truth_density |-> 0, love_resonance |-> 0],
     status |-> "ERROR"]

_create_fallback_discernment ==
    [truth_score |-> 0, fact_score |-> 0, lie_score |-> 0, coherence_score |-> 50,
     semantic_drift |-> 0, temporal_consistency |-> 50, violations |-> << >>,
     phase_separation |-> [snr |-> 100], confidence |-> 0,
     recommendations |-> << "Analysis unavailable" >>]

\* a pattern fallback that scores the text as wholly inauthentic
FallbackPatternZeroAuthenticity ==
    [detected_patterns |-> 0, pattern_types |-> [t \in {} |-> 0],
     manipulation_score |-> 0, authenticity_score |-> 0, structural_integrity |-> 50,
     recurring_themes |-> << >>, anomalies |-> << >>,
     recommendations |-> << "Analysis unavailable" >>]

_create_fallback_pattern ==
    [detected_patterns |-> 0, pattern_types |-> [t \in {} |-> 0],
     manipulation_score |-> 0, authenticity_score |-> 50, structural_integrity |-> 50,
     recurring_themes |-> << >>, anomalies |-> << >>,
     recommendations |-> << "Analysis unavailable" >>]

_create_fallback_temporal ==
    [consistency_score |-> 5000, drift_magnitude |-> 0, drift_direction |-> "unknown",
     evolution_trajectory |-> "unknown", stability_index |-> 5000,
     anomalous_changes |-> << >>, trend_analysis |-> [k \in {} |-> 0],
     predictions |-> [k \in {} |-> 0],
     recommendations |-> << "Analysis unavailable" >>]


\* ------------------------------------------------------ orchestrator action
\* what a scorer call does: raise, or return a value
Raise == [raised |-> TRUE]
Return(v) == [raised |-> FALSE, value |-> v]

V1_9_THRESHOLD == 17333     \* 1.7333 in ten-thousandths

\* ThroneRoom.enter: access is granted from the threshold on
enter_throne_room(lambda_value) ==
    IF lambda_value * 100 >= V1_9_THRESHOLD
    THEN [success |-> TRUE, merkabah |-> "ROTATING"]
    ELSE [success |-> FALSE, required |-> V1_9_THRESHOLD, current |-> lambda_value]

\* analyze_temporal_coherence(text, temporal_scores, temporal_window) passes
\* three positional arguments to a function declared with two parameters
TemporalCallArguments == 3
TemporalCallParameters == 2
TemporalCallRaises == TemporalCallArguments # TemporalCallParameters

DefaultWindowSize == 10
DefaultMaxHistory == 100

Phases ==
    { "lambda", "throne_room", "prophecy", "discernment", "pattern", "temporal",
      "system_summary" }

\* a pipeline whose last phase has no except clause
HandledExceptSummary(phase) == phase \in Phases \ { "system_summary" }

\* the phases whose call sits in a try block with an except Exception clause
Handled(phase) == phase \in Phases

\* discernment_dict built from the DiscernmentResult attributes
DiscernmentDict(r) ==
    [truth_score |-> r.truth_score, fact_score |-> r.fact_score,
     lie_score |-> r.lie_score, coherence_score |-> r.coherence_score,
     semantic_drift |-> r.semantic_drift,
     temporal_consistency |-> r.temporal_consistency,
     violations |-> r.violations, phase_separation |-> r.phase_separation,
     confidence |-> r.confidence, recommendations |-> r.recommendations]

\* pattern_dict built from the PatternAnalysisResult attributes
PatternDict(r) ==
    [detected_patterns |-> Len(r.detected_patterns),
     pattern_types |-> [t \in DOMAIN r.pattern_clusters |-> Len(r.pattern_clusters[t])],
     manipulation_score |-> r.manipulation_score,
     authenticity_score |-> r.authenticity_score,
     structural_integrity |-> r.structural_integrity,
     recurring_themes |-> r.recurring_themes, anomalies |-> r.anomalies,
     recommendations |-> r.recommendations]

\* temporal_dict built from the TemporalAnalysisResult attributes
TemporalDict(r) ==
    [consistency_score |-> r.consistency_score, drift_magnitude |-> r.drift_magnitude,
     drift_direction |-> r.drift_direction,
     evolution_trajectory |-> r.evolution_trajectory,
     stability_index |-> r.stability_index,
     anomalous_changes |-> r.anomalous_changes, trend_analysis |-> r.trend_analysis,
     predictions |-> r.predictions, recommendations |-> r.recommendations]

NoProphecy == [none |-> TRUE]

\* phases 1 to 5 of analyze_comprehensive for the call c
LambdaResult(c) == IF c.lambda.raised THEN _create_fallback_lambda ELSE c.lambda.value

CompositeResonance(c) ==
    IF c.lambda.raised THEN 0 ELSE c.lambda.value.metrics.composite_resonance

ThroneAccess(c) ==
    IF c.throne_raises THEN [success |-> FALSE, reason |-> "Error in access check"]
    ELSE enter_throne_room(CompositeResonance(c))

ProphecyCalled(c) == c.include_prophecy /\ ThroneAccess(c).success

Prophecy(c) ==
    IF ProphecyCalled(c) /\ ~c.prophecy.raised THEN c.prophecy.value ELSE NoProphecy

DiscernmentAnalysis(c) ==
    IF c.discernment.raised THEN _create_fallback_discernment
    ELSE DiscernmentDict(c.discernment.value)

PatternAnalysis(c) ==
    IF c.pattern.raised THEN _create_fallback_pattern ELSE PatternDict(c.pattern.value)

SystemSummary(c) ==
    IF c.system_summary.raised THEN [status |-> "unavailable"]
    ELSE c.system_summary.value

TemporalScores(c) ==
    [truth |-> Get(DiscernmentAnalysis(c), "truth_score", 0),
     fact |-> Get(DiscernmentAnalysis(c), "fact_score", 0),
     lie |-> Get(DiscernmentAnalysis(c), "lie_score", 0),
     coherence |-> Get(DiscernmentAnalysis(c), "coherence_score", 0),
     lambda |-> CompositeResonance(c)]

\* the phases of the call c that raise
RaisingPhases(c) ==
    { p \in Phases :
        \/ p = "lambda" /\ c.lambda.raised
        \/ p = "throne_room" /\ c.throne_raises
        \/ p = "prophecy" /\ ProphecyCalled(c) /\ c.prophecy.raised
        \/ p = "discernment" /\ c.discernment.raised
        \/ p = "pattern" /\ c.pattern.raised
        \/ p = "temporal" /\ TemporalCallRaises
        \/ p = "system_summary" /\ c.system_summary.raised }

\* an identifier that carries the date alone
AnalysisIdDateOnly(count) == 0

\* f"ALE-{date}-{self.analysis_count:06d}": the identifier is modelled by its
\* sequence number; the date prefix never decreases from one call to the next
AnalysisId(count) == count

\* phases 7 to 10 and the result assembly
ComprehensiveAnalysisResult(c, count, temporal_dict) ==
    LET unified_scores ==
            _unify_scores(LambdaResult(c), DiscernmentAnalysis(c), PatternAnalysis(c),
                          temporal_dict)
        overall ==
            _assess_overall(unified_scores, DiscernmentAnalysis(c), PatternAnalysis(c),
                            temporal_dict)
        lists ==
            _generate_comprehensive_recommendations(
                unified_scores, DiscernmentAnalysis(c), PatternAnalysis(c),
                temporal_dict, overall[3])
    IN [returned |-> "result",
        analysis_id |-> AnalysisId(count),
        text |-> c.text,
        text_length |-> c.text.length,
        word_count |-> Len(c.text.words),
        lambda_analysis |-> LambdaResult(c),
        throne_room_access |-> ThroneAccess(c),
        prophecy |-> Prophecy(c),
        discernment_analysis |-> DiscernmentAnalysis(c),
        pattern_analysis |-> PatternAnalysis(c),
        temporal_analysis |-> temporal_dict,
        unified_scores |-> unified_scores,
        overall_status |-> overall[1],
        overall_confidence |-> overall[2],
        risk_level |-> overall[3],
        recommendations |-> lists[1],
        warnings |-> lists[2],
        action_items |-> lists[3],
        system_summary |-> SystemSummary(c)]

\* UnifiedOrchestrator.analyze_comprehensive(text, None, include_prophecy) with
\* the scorer outcomes of c.  An exception no except clause catches leaves the
\* call after the counter was advanced and before the result is appended.
analyze_comprehensive(c) ==
    /\ IF TemporalCallRaises THEN UNCHANGED tvars
       ELSE analyze_temporal_coherence(
                [text |-> c.text.words, scores |-> TemporalScores(c), themes |-> << >>],
                DefaultWindowSize)
    /\ LET temporal_dict == IF TemporalCallRaises THEN _create_fallback_temporal
                            ELSE TemporalDict(temporal_result')
           result == ComprehensiveAnalysisResult(c, analysis_count + 1, temporal_dict)
           escapes == \E p \in RaisingPhases(c) : ~Handled(p)
       IN /\ analysis_count' = analysis_count + 1
          /\ analysis_history' =
                IF escapes THEN analysis_history ELSE Append(analysis_history, result)
          /\ orch_result' = IF escapes THEN [returned |-> "exception"] ELSE result
          /\ orch_call' = c

\* the texts and the values the scorers return for them when they do not raise
Scenarios ==
    { \* the empty string
      [text |-> [length |-> 0, words |-> << >>],
       lambda |-> [metrics |-> [composite_resonance |-> 0], status |-> "DORMANT"],
       discernment |->
          [truth_score |-> 0, fact_score |-> 0, lie_score |-> 0, coherence_score |-> 50,
           semantic_drift |-> 0, temporal_consistency |-> 100, pattern_matches |-> << >>,
           violations |-> << >>, recommendations |-> << >>,
           phase_separation |-> [snr |-> 100], confidence |-> 30],
       pattern |->
          [detected_patterns |-> << >>, pattern_clusters |-> [t \in {} |-> << >>],
           manipulation_score |-> 0, authenticity_score |-> 50,
           structural_integrity |-> 50, recurring_themes |-> << >>, anomalies |-> << >>,
           recommendations |-> << >>]],
      \* three blanks
      [text |-> [length |-> 3, words |-> << >>],
       lambda |-> [metrics |-> [composite_resonance |-> 0], status |-> "DORMANT"],
       discernment |->
          [truth_score |-> 0, fact_score |-> 0, lie_score |-> 0, coherence_score |-> 50,
           semantic_drift |-> 0, temporal_consistency |-> 100, pattern_matches |-> << >>,
           violations |-> << >>, recommendations |-> << >>,
           phase_separation |-> [snr |-> 100], confidence |-> 30],
       pattern |->
          [detected_patterns |-> << >>, pattern_clusters |-> [t \in {} |-> << >>],
           manipulation_score |-> 0, authenticity_score |-> 50,
           structural_integrity |-> 50, recurring_themes |-> << >>, anomalies |-> << >>,
           recommendations |-> << >>]],
      \* a text every truth and love keyword of the lambda engine occurs in
      [text |-> [length |-> 20, words |-> << "Truth", "and", "Love", "guide" >>],
       lambda |-> [metrics |-> [composite_resonance |-> 2000], status |-> "RESONANT"],
       discernment |->
          [truth_score |-> 90, fact_score |-> 50, lie_score |-> 0, coherence_score |-> 90,
           semantic_drift |-> 0, temporal_consistency |-> 100, pattern_matches |-> << >>,
           violations |-> << >>, recommendations |-> << "Strong truth alignment" >>,
           phase_separation |-> [snr |-> 900], confidence |-> 80],
       pattern |->
          [detected_patterns |-> << >>, pattern_clusters |-> [t \in {} |-> << >>],
           manipulation_score |-> 0, authenticity_score |-> 90,
           structural_integrity |-> 80, recurring_themes |-> << >>, anomalies |-> << >>,
           recommendations |-> << "Maintain authentic voice" >>]],
      \* a manipulative text
      [text |-> [length |-> 23, words |-> << "deception", "against", "truth" >>],
       lambda |-> [metrics |-> [composite_resonance |-> 50], status |-> "DORMANT"],
       discernment |->
          [truth_score |-> 10, fact_score |-> 30, lie_score |-> 90, coherence_score |-> 40,
           semantic_drift |-> 20, temporal_consistency |-> 100, pattern_matches |-> << >>,
           violations |-> << "manipulation", "deception" >>,
           recommendations |-> << "Remove deceptive language" >>,
           phase_separation |-> [snr |-> 10], confidence |-> 60],
       pattern |->
          [detected_patterns |-> << "gaslighting", "coercion" >>,
           pattern_clusters |-> [manipulation |-> << "gaslighting", "coercion" >>],
           manipulation_score |-> 90, authenticity_score |-> 10,
           structural_integrity |-> 30, recurring_themes |-> << >>, anomalies |-> << >>,
           recommendations |->
              << "Remove gaslighting", "Remove coercion", "Add evidence" >>]] }

\* the calls analyze_comprehensive is checked on: every scenario, with every
\* subset of the scorers raising
OrchestratorCalls ==
    { [text |-> sc.text,
       include_prophecy |-> ip,
       lambda |-> IF "lambda" \in failing THEN Raise ELSE Return(sc.lambda),
       throne_raises |-> "throne_room" \in failing,
       prophecy |-> IF "prophecy" \in failing THEN Raise
                    ELSE Return([prophecy |-> "Mercy cuts deeper than judgment."]),
       discernment |-> IF "discernment" \in failing THEN Raise
                       ELSE Return(sc.discernment),
       pattern |-> IF "pattern" \in failing THEN Raise ELSE Return(sc.pattern),
       system_summary |-> IF "system_summary" \in failing THEN Raise
                          ELSE Return([eternal_status |-> "AWAITING"])] :
      sc \in Scenarios, ip \in BOOLEAN, failing \in SUBSET (Phases \ { "temporal" }) }

\* the orchestrator works on the module-level tracker
OrchestratorSpecInit ==
    TrackerNew(DefaultMaxHistory) /\ OrchestratorInit /\ AssessIdle

OrchestratorNext ==
    \E c \in OrchestratorCalls :
        /\ analysis_count < MaxAnalyses
        /\ analyze_comprehensive(c)
        /\ UNCHANGED << avars, svars, twin, threads >>

SpecOrchestrator == OrchestratorSpecInit /\ [][OrchestratorNext]_vars


\* ------------------------------------------------- the scoring functions alone
\* scalar scores: scorer scores in hundredths, temporal scores in ten-thousandths
ScoreInputs ==
    [truth : {0, 50, 90}, authenticity : {0, 10, 50, 90, 100},
     resonance : {0, 800, 2000}, coherence : {0, 90},
     consistency : {0, 5000, 9000}, lie : {0, 90, 100}, manipulation : {0, 50, 90},
     stability : {5000, 10000}, drift_magnitude : {0, 8000, 10000, 30000}]

\* phases 7 to 9 of analyze_comprehensive on dictionaries holding the scores of in
Assessment(in) ==
    LET lambda_res == [metrics |-> [composite_resonance |-> in.resonance]]
        discern == [truth_score |-> in.truth, lie_score |-> in.lie,
                    coherence_score |-> in.coherence]
        pattern == [authenticity_score |-> in.authenticity,
                    manipulation_score |-> in.manipulation]
        temporal == [consistency_score |-> in.consistency,
                     stability_index |-> in.stability,
                     drift_magnitude |-> in.drift_magnitude]
        unified_scores == _unify_scores(lambda_res, discern, pattern, temporal)
        overall == _assess_overall(unified_scores, discern, pattern, temporal)
        lists == _generate_comprehensive_recommendations(unified_scores, discern, pattern,
                                                         temporal, overall[3])
    IN [returned |-> "assessment",
        unified_scores |-> unified_scores,
        overall_status |-> overall[1],
        overall_confidence |-> overall[2],
        risk_level |-> overall[3],
        recommendations |-> lists[1],
        warnings |-> lists[2],
        action_items |-> lists[3]]

ScoresInit ==
    /\ TrackerNew(DefaultMaxHistory)
    /\ OrchestratorInit
    /\ assess_in \in ScoreInputs
    /\ assess_out = [returned |-> "none"]
    /\ tracker_stats = [returned |-> "none"]
    /\ orch_stats = [returned |-> "none"]
    /\ twin = TwinNew
    /\ threads = NoThreads

Assess ==
    /\ assess_out.returned = "none"
    /\ assess_out' = Assessment(assess_in)
    /\ UNCHANGED << tvars, ovars, svars, twin, threads, assess_in >>

ScoresNext == Assess

SpecScores == ScoresInit /\ [][ScoresNext]_vars

\* ------------------------------------------------------------- statistics
\* sum(1 for a in history if a[field] == value)
CountWhere(history, field, value) ==
    Len(SelectSeq(history, LAMBDA a : a[field] = value))

\* round(sum(a.unified_scores[index] for a in history) / len(history), 4)
AverageIndex(history, index) ==
    RoundDiv(SumSeq([i \in DOMAIN history |-> history[i].unified_scores[index]]),
             Len(history))

\* a risk distribution that leaves the MINIMAL analyses out
RiskDistributionNoMinimal(history) ==
    [l \in { "CRITICAL", "HIGH", "MEDIUM", "LOW" } |->
        CountWhere(history, "risk_level", l)]

RiskDistribution(history) ==
    [l \in { "CRITICAL", "HIGH", "MEDIUM", "LOW", "MINIMAL" } |->
        CountWhere(history, "risk_level", l)]

StatusDistribution(history) ==
    [st \in { history[i].overall_status : i \in DOMAIN history } |->
        CountWhere(history, "overall_status", st)]

\* what UnifiedOrchestrator.get_statistics returns
OrchestratorStatistics(history) ==
    IF history = << >>
    THEN [total_analyses |-> 0, message |-> "No analyses performed yet"]
    ELSE [total_analyses |-> Len(history),
          risk_distribution |-> RiskDistribution(history),
          status_distribution |-> StatusDistribution(history),
          average_scores |->
              [truth_index |-> AverageIndex(history, "truth_index"),
               risk_index |-> AverageIndex(history, "risk_index"),
               integrity_index |-> AverageIndex(history, "integrity_index")],
          total_warnings |->
              SumSeq([i \in DOMAIN history |-> Len(history[i].warnings)]),
          total_action_items |->
              SumSeq([i \in DOMAIN history |-> Len(history[i].action_items)])]

\* round(sum(s[field] for s in snapshots_list) / len(snapshots_list), 4), the
\* scores being hundredths and the average ten-thousandths
AverageScore(snapshots_list, field) ==
    ScaledDiv(SumSeq([i \in DOMAIN snapshots_list |-> snapshots_list[i][field]]),
              Len(snapshots_list))

\* what TemporalCoherenceTracker.get_statistics returns; most_recurring is kept
\* as the set of its (theme, count) pairs, which holds every theme while there
\* are at most five
TrackerStatistics(store, themes, stability) ==
    IF store = << >>
    THEN [total_snapshots |-> 0, message |-> "No temporal data recorded yet"]
    ELSE [total_snapshots |-> Len(store),
          time_span |->
              [start |-> store[1].timestamp,
               end |-> store[Len(store)].timestamp,
               duration_seconds |-> store[Len(store)].timestamp - store[1].timestamp],
          averages |->
              [truth |-> AverageScore(store, "truth_score"),
               lambda |-> AverageScore(store, "lambda_value"),
               coherence |-> AverageScore(store, "coherence_score")],
          stability |->
              [current |-> IF stability # << >> THEN stability[Len(stability)] ELSE ONE,
               average |-> IF stability # << >>
                           THEN RoundDiv(SumSeq(stability), Len(stability)) ELSE ONE],
          theme_tracking |->
              [total_themes |-> Cardinality(DOMAIN themes),
               most_recurring |-> { << t, Len(themes[t]) >> : t \in DOMAIN themes }]]

\* UnifiedOrchestrator.get_statistics; calls_before is the number of
\* analyze_comprehensive calls made when the statistics were taken
orchestrator_get_statistics ==
    /\ orch_stats' = [returned |-> "statistics", calls_before |-> analysis_count,
                      value |-> OrchestratorStatistics(analysis_history)]
    /\ UNCHANGED << tvars, ovars, avars, tracker_stats, twin, threads >>

\* a get_statistics that reads the current stability with stability_history.pop()
tracker_get_statistics_popping ==
    /\ tracker_stats' =
          [returned |-> "statistics", calls_before |-> Len(calls),
           value |-> TrackerStatistics(snapshots, theme_evolution, stability_history)]
    /\ stability_history' =
          IF stability_history = << >> THEN stability_history
          ELSE SubSeq(stability_history, 1, Len(stability_history) - 1)
    /\ UNCHANGED << max_history, snapshots, theme_evolution, calls, temporal_result,
                    ovars, avars, orch_stats, twin, threads >>

\* TemporalCoherenceTracker.get_statistics; calls_before is the number of
\* record / analyze calls made when the statistics were taken
tracker_get_statistics ==
    /\ tracker_stats' =
          [returned |-> "statistics", calls_before |-> Len(calls),
           value |-> TrackerStatistics(snapshots, theme_evolution, stability_history)]
    /\ UNCHANGED << tvars, ovars, avars, orch_stats, twin, threads >>

\* the public methods of class TemporalCoherenceTracker
TrackerMethods == { "record_snapshot", "analyze_temporal_coherence", "get_statistics" }

\* the public methods of class UnifiedOrchestrator
OrchestratorMethods == { "analyze_comprehensive", "get_statistics", "export_result_json" }

\* tracker.reset(): the class defines no such attribute, the call raises
\* AttributeError and nothing is cleared
tracker_reset ==
    /\ "reset" \notin TrackerMethods
    /\ temporal_result' =
          [returned |-> "exception", call |-> "reset", raised |-> "AttributeError"]
    /\ UNCHANGED << max_history, snapshots, theme_evolution, stability_history, calls,
                    ovars, avars, svars, twin, threads >>

\* orchestrator.reset(): the class defines no such attribute either
orchestrator_reset ==
    /\ "reset" \notin OrchestratorMethods
    /\ orch_result' =
          [returned |-> "exception", call |-> "reset", raised |-> "AttributeError"]
    /\ UNCHANGED << analysis_count, analysis_history, orch_call, tvars, avars, svars, twin, threads >>

MaxSessionAnalyses == 2     \* analyze_comprehensive calls per session
MaxSessionCalls == 2        \* tracker calls per session

\* the calls of a session: no scorer but the temporal one raises, or all do
SessionCalls ==
    { c \in OrchestratorCalls :
        /\ ~c.include_prophecy
        /\ c.text.length # 3
        /\ c.prophecy.raised = c.lambda.raised
        /\ RaisingPhases(c) \in { { "temporal" }, Phases \ { "prophecy" } } }

SessionInputs == { in \in Inputs : in.scores # ScoresNone }

\* one orchestrator and the module-level tracker, used and queried in any order
SessionNext ==
    \/ \E c \in SessionCalls :
          /\ analysis_count < MaxSessionAnalyses
          /\ analyze_comprehensive(c)
          /\ UNCHANGED << avars, svars, twin, threads >>
    \/ \E in \in SessionInputs :
          /\ Len(calls) < MaxSessionCalls
          /\ record_snapshot(in)
          /\ UNCHANGED << ovars, avars, svars, twin, threads >>
    \/ \E in \in SessionInputs :
          /\ Len(calls) < MaxSessionCalls
          /\ analyze_temporal_coherence(in, DefaultWindowSize)
          /\ UNCHANGED << ovars, avars, svars, twin, threads >>
    \/ orchestrator_get_statistics
    \/ tracker_get_statistics
    \/ tracker_reset
    \/ orchestrator_reset

SpecSession == OrchestratorSpecInit /\ [][SessionNext]_vars

\* ------------------------------------------------------------ two trackers
\* record_snapshot on the second tracker tw, whose clock reads ts
TwinRecord(tw, cap, in, ts) ==
    LET snapshot == SnapshotOf(in, ts)
    IN [snapshots |-> DequeAppend(tw.snapshots, snapshot, cap),
        theme_evolution |->
            TrackThemes(tw.theme_evolution, snapshot.key_themes, snapshot.timestamp),
        stability_history |-> tw.stability_history,
        clock |-> ts,
        result |-> [returned |-> "snapshot", current_snapshot |-> snapshot]]

\* analyze_temporal_coherence on the second tracker tw, whose clock reads ts
TwinAnalyze(tw, cap, in, window_size, ts) ==
    LET current_snapshot == SnapshotOf(in, ts)
        store == DequeAppend(tw.snapshots, current_snapshot, cap)
        result == IF NoHistory(store) THEN _create_baseline_result(current_snapshot)
                  ELSE FullResult(current_snapshot, store, window_size)
    IN [snapshots |-> store,
        theme_evolution |->
            TrackThemes(tw.theme_evolution, current_snapshot.key_themes,
                        current_snapshot.timestamp),
        stability_history |->
            IF NoHistory(store) THEN tw.stability_history
            ELSE Append(tw.stability_history, result.stability_index),
        clock |-> ts,
        result |-> result]

MaxTwinCalls == 3           \* calls made to each of the two trackers

\* how far the second tracker's clock has moved on when the next call reaches it
ClockSteps == { 1, 3 }

\* the same call is made to both trackers
TwinNext ==
    \/ \E in \in SessionInputs, dt \in ClockSteps :
          /\ Len(calls) < MaxTwinCalls
          /\ record_snapshot(in)
          /\ twin' = TwinRecord(twin, max_history, in, twin.clock + dt)
          /\ UNCHANGED << ovars, avars, svars, threads >>
    \/ \E in \in SessionInputs, w \in WindowSizes, dt \in ClockSteps :
          /\ Len(calls) < MaxTwinCalls
          /\ analyze_temporal_coherence(in, w)
          /\ twin' = TwinAnalyze(twin, max_history, in, w, twin.clock + dt)
          /\ UNCHANGED << ovars, avars, svars, threads >>

SpecTwin == Init /\ [][TwinNext]_vars

\* ------------------------------------------------------- the module tracker
\* the module's own tracker: _tracker = TemporalCoherenceTracker()
ModuleTrackerInit == TrackerNew(DefaultMaxHistory) /\ OrchestratorInit /\ AssessIdle

\* the module function analyze_temporal_coherence(text, scores), which leaves
\* window_size at its default
ModuleNext ==
    \E in \in DriftInputs :
        /\ analyze_temporal_coherence(in, DefaultWindowSize)
        /\ UNCHANGED << ovars, avars, svars, twin, threads >>

SpecModuleTracker == ModuleTrackerInit /\ [][ModuleNext]_vars

\* ------------------------------------------------- the tests of the tracker
\* scores of test_stability_calculation, and of test_drift_detection's second call
ScoresSteady == [truth |-> 80, fact |-> 50, lie |-> 10, coherence |-> 90, lambda |-> 500]
ScoresDrifted == [truth |-> 20, fact |-> 30, lie |-> 90, coherence |-> 40, lambda |-> 100]

TestInputs ==
    { [text |-> << "Truth", "and", "love", "guide", "us", "-", "iteration", "i" >>,
       scores |-> ScoresSteady, themes |-> << >>],
      [text |-> << "Manipulation", "and", "deception", "are", "necessary", "tools",
                   "for", "power." >>,
       scores |-> ScoresDrifted, themes |-> << >>] }

MaxTestCalls == 7           \* calls the tests make to the module's tracker

\* the tests of one process call the module function on the one shared _tracker
TestNext ==
    \E in \in TestInputs :
        /\ Len(calls) < MaxTestCalls
        /\ TrackerAnalyze(in, DefaultWindowSize)
        /\ UNCHANGED << ovars, avars, svars, twin, threads >>

SpecTests == ModuleTrackerInit /\ [][TestNext]_vars

\* ------------------------------------------------------- concurrent callers
MaxThreadCalls == 1         \* calls each of the concurrent callers makes

\* a caller between two calls
Resting == { "idle", "returned", "completed" }

\* caller t enters analyze_temporal_coherence and runs its first statement,
\* current_snapshot = self.record_snapshot(...)
thread_record(t, in, window_size) ==
    /\ threads[t].pc \in Resting
    /\ threads[t].made < MaxThreadCalls
    /\ LET snapshot == SnapshotOf(in, Len(calls) + 1)
       IN IF DividesByZero(RecordDivisions(in))
          THEN /\ threads' = [threads EXCEPT ![t] =
                                [pc |-> "returned", made |-> @.made + 1,
                                 result |-> ZeroDivisionError("analyze_temporal_coherence")]]
               /\ calls' = Append(calls, in)
               /\ UNCHANGED << snapshots, theme_evolution >>
          ELSE /\ snapshots' = DequeAppend(snapshots, snapshot, max_history)
               /\ theme_evolution' =
                     TrackThemes(theme_evolution, snapshot.key_themes,
                                 snapshot.timestamp)
               /\ calls' = Append(calls, in)
               /\ threads' = [threads EXCEPT ![t] =
                                [pc |-> "recorded", made |-> @.made + 1,
                                 current_snapshot |-> snapshot,
                                 window_size |-> window_size]]
    /\ UNCHANGED << max_history, stability_history, temporal_result, ovars, avars,
                    svars, twin >>

\* caller t runs the rest of analyze_temporal_coherence on the store as it is
\* now: the length test, the window and the phases
thread_analyze(t) ==
    /\ threads[t].pc = "recorded"
    /\ LET current_snapshot == threads[t].current_snapshot
           window_size == threads[t].window_size
           recent_snapshots == LastN(snapshots, window_size)
       IN IF NoHistory(snapshots)
          THEN /\ threads' = [threads EXCEPT ![t] =
                                [pc |-> "returned", made |-> @.made,
                                 current_snapshot |-> current_snapshot,
                                 result |-> _create_baseline_result(current_snapshot)]]
               /\ temporal_result' = _create_baseline_result(current_snapshot)
               /\ UNCHANGED stability_history
          ELSE IF DividesByZero(AnalyzeDivisions(current_snapshot, recent_snapshots))
          THEN /\ threads' = [threads EXCEPT ![t] =
                                [pc |-> "returned", made |-> @.made,
                                 current_snapshot |-> current_snapshot,
                                 result |-> ZeroDivisionError("analyze_temporal_coherence")]]
               /\ temporal_result' = ZeroDivisionError("analyze_temporal_coherence")
               /\ UNCHANGED stability_history
          ELSE LET result == FullResult(current_snapshot, snapshots, window_size)
               IN /\ threads' = [threads EXCEPT ![t] =
                                   [pc |-> "returned", made |-> @.made,
                                    current_snapshot |-> current_snapshot,
                                    recent_snapshots |-> recent_snapshots,
                                    result |-> result]]
                  /\ temporal_result' = result
                  /\ stability_history' =
                        Append(stability_history, result.stability_index)
    /\ UNCHANGED << max_history, snapshots, theme_evolution, calls, ovars, avars,
                    svars, twin >>

\* caller t enters analyze_comprehensive and runs self.analysis_count += 1
thread_count(t) ==
    /\ threads[t].pc \in Resting
    /\ threads[t].made < MaxThreadCalls
    /\ analysis_count' = analysis_count + 1
    /\ threads' = [threads EXCEPT ![t] = [pc |-> "counted", made |-> @.made + 1]]
    /\ UNCHANGED << tvars, analysis_history, orch_call, orch_result, avars, svars,
                    twin >>

\* caller t formats analysis_id from self.analysis_count as it is now
thread_identify(t) ==
    /\ threads[t].pc = "counted"
    /\ threads' = [threads EXCEPT ![t] =
                     [pc |-> "identified", made |-> @.made,
                      analysis_count |-> analysis_count,
                      analysis_id |-> AnalysisId(analysis_count)]]
    /\ UNCHANGED << tvars, ovars, avars, svars, twin >>

\* caller t runs the phases of analyze_comprehensive and appends its result
thread_complete(t, c) ==
    /\ threads[t].pc = "identified"
    /\ IF TemporalCallRaises THEN UNCHANGED tvars
       ELSE analyze_temporal_coherence(
                [text |-> c.text.words, scores |-> TemporalScores(c), themes |-> << >>],
                DefaultWindowSize)
    /\ LET temporal_dict == IF TemporalCallRaises THEN _create_fallback_temporal
                            ELSE TemporalDict(temporal_result')
           result == ComprehensiveAnalysisResult(c, threads[t].analysis_count,
                                                 temporal_dict)
           escapes == \E p \in RaisingPhases(c) : ~Handled(p)
       IN /\ analysis_history' =
                IF escapes THEN analysis_history ELSE Append(analysis_history, result)
          /\ orch_result' = IF escapes THEN [returned |-> "exception"] ELSE result
          /\ orch_call' = c
    /\ threads' = [threads EXCEPT ![t] =
                     [pc |-> "completed", made |-> @.made,
                      analysis_id |-> @.analysis_id]]
    /\ UNCHANGED << analysis_count, avars, svars, twin >>

\* two callers share one tracker and one orchestrator without a lock
ThreadsNext ==
    \/ \E t \in Callers, in \in TestInputs : thread_record(t, in, DefaultWindowSize)
    \/ \E t \in Callers : thread_analyze(t)
    \/ \E t \in Callers : thread_count(t)
    \/ \E t \in Callers : thread_identify(t)
    \/ \E t \in Callers, c \in SessionCalls : thread_complete(t, c)

SpecThreads == Init /\ [][ThreadsNext]_vars

\* ------------------------------------------------------------------ claims
Min(a, b) == IF a < b THEN a ELSE b

\* C3: with max_history = N, after k record / analyze calls the store holds
\* exactly the last min(N, k) of the k snapshots recorded, in recording order.
C3_StoreIsLastRecorded ==
    LET k == Len(calls)
        m == Min(max_history, k)
    IN /\ Len(snapshots) = m
       /\ Len(snapshots) <= max_history
       /\ \A i \in 1..m : snapshots[i] = SnapshotOf(calls[k - m + i], k - m + i)

\* capacity 3 and 5 calls: the store holds exactly records 3, 4, 5
C3_Witness ==
    /\ max_history = 3
    /\ Len(calls) = 5
    /\ [i \in 1..Len(snapshots) |-> snapshots[i].timestamp] = << 3, 4, 5 >>

\* C6: the first analyze call on a fresh tracker returns the baseline result,
\* records exactly one snapshot and appends nothing to stability_history.
C6_FirstAnalyzeIsBaseline ==
    (Len(calls) = 1 /\ temporal_result.returned = "analysis") =>
        /\ temporal_result.consistency_score = ONE
        /\ temporal_result.drift_magnitude = 0
        /\ temporal_result.drift_direction = "baseline"
        /\ temporal_result.evolution_trajectory = "establishing_baseline"
        /\ temporal_result.stability_index = ONE
        /\ temporal_result.anomalous_changes = << >>
        /\ Len(temporal_result.recommendations) = 1
        /\ snapshots = << SnapshotOf(calls[1], 1) >>
        /\ temporal_result.current_snapshot = snapshots[1]
        /\ stability_history = << >>

C6_Witness ==
    /\ Len(calls) = 1
    /\ temporal_result.returned = "analysis"
    /\ temporal_result.drift_direction = "baseline"
    /\ Len(snapshots) = 1

\* the case of C7: record, then analyze with the same input, as the first two calls
RecordThenSameAnalyze ==
    /\ Len(calls) = 2
    /\ calls[1] = calls[2]
    /\ temporal_result.returned = "analysis"

StatusLabels ==
    { "TRUTH_ALIGNED", "TRUTH_SEEKING", "NEUTRAL", "HIGH_RISK", "CAUTION_ADVISED",
      "UNCLEAR" }

RiskLabels == { "CRITICAL", "HIGH", "MEDIUM", "LOW", "MINIMAL" }

IndexNames == { "truth_index", "integrity_index", "risk_index", "awakening_index" }

IsList(x) == DOMAIN x = 1..Len(x)

\* C1: analyze_comprehensive never lets an exception escape: for every text
\* (the empty and the blank one included) and every combination of scorers
\* raising, the call returns a complete result with unified_scores,
\* overall_status, risk_level and the three lists set.
C1_NoExceptionEscapes ==
    analysis_count > 0 =>
        /\ orch_result.returned = "result"
        /\ { "unified_scores", "overall_status", "risk_level", "recommendations",
             "warnings", "action_items" } \subseteq DOMAIN orch_result
        /\ IndexNames \subseteq DOMAIN orch_result.unified_scores
        /\ orch_result.overall_status \in StatusLabels
        /\ orch_result.risk_level \in RiskLabels
        /\ IsList(orch_result.recommendations)
        /\ IsList(orch_result.warnings)
        /\ IsList(orch_result.action_items)
        /\ orch_result.analysis_id = analysis_count
        /\ Len(analysis_history) = analysis_count
        /\ analysis_history[analysis_count] = orch_result

\* every scorer that is called raises on the empty string, and a result comes back
C1_Witness ==
    /\ analysis_count > 0
    /\ orch_call.text.length = 0
    /\ RaisingPhases(orch_call) = Phases \ { "prophecy" }
    /\ orch_result.returned = "result"
    /\ orch_result.overall_status = "UNCLEAR"

\* C2: when a scorer raises, exactly its output is replaced by its fallback
\* (discernment: truth / fact / lie 0.0, coherence 0.5, confidence 0.0, the one
\* recommendation 'Analysis unavailable'; pattern: manipulation 0.0,
\* authenticity 0.5, structural_integrity 0.5; temporal: consistency 0.5,
\* drift 0.0, stability 0.5; lambda: composite_resonance 0.0), the later phases
\* run on it, and the output of a scorer that did not raise is passed on unchanged.
C2_FallbackReplacesExactlyTheRaiser ==
    (analysis_count > 0 /\ orch_result.returned = "result") =>
        LET c == orch_call
            r == orch_result
        IN /\ c.lambda.raised =>
                 r.lambda_analysis.metrics.composite_resonance = 0
           /\ ~c.lambda.raised => r.lambda_analysis = c.lambda.value
           /\ c.discernment.raised =>
                 /\ r.discernment_analysis.truth_score = 0
                 /\ r.discernment_analysis.fact_score = 0
                 /\ r.discernment_analysis.lie_score = 0
                 /\ r.discernment_analysis.coherence_score = 50
                 /\ r.discernment_analysis.confidence = 0
                 /\ r.discernment_analysis.recommendations = << "Analysis unavailable" >>
           /\ ~c.discernment.raised =>
                 \A f \in DOMAIN r.discernment_analysis :
                     r.discernment_analysis[f] = c.discernment.value[f]
           /\ c.pattern.raised =>
                 /\ r.pattern_analysis.manipulation_score = 0
                 /\ r.pattern_analysis.authenticity_score = 50
                 /\ r.pattern_analysis.structural_integrity = 50
           /\ ~c.pattern.raised =>
                 /\ \A f \in { "manipulation_score", "authenticity_score",
                               "structural_integrity", "recurring_themes", "anomalies",
                               "recommendations" } :
                        r.pattern_analysis[f] = c.pattern.value[f]
                 /\ r.pattern_analysis.detected_patterns =
                        Len(c.pattern.value.detected_patterns)
           /\ "temporal" \in RaisingPhases(c) =>
                 /\ r.temporal_analysis.consistency_score = ONE \div 2
                 /\ r.temporal_analysis.drift_magnitude = 0
                 /\ r.temporal_analysis.stability_index = ONE \div 2
           /\ r.unified_scores =
                 _unify_scores(r.lambda_analysis, r.discernment_analysis,
                               r.pattern_analysis, r.temporal_analysis)
           /\ r.unified_scores.component_scores.lambda =
                 (IF c.lambda.raised THEN 0
                  ELSE c.lambda.value.metrics.composite_resonance)

\* the pattern scorer raised while discernment returned a lie score of 0.9
C2_Witness ==
    /\ analysis_count > 0
    /\ orch_result.returned = "result"
    /\ orch_call.pattern.raised
    /\ ~orch_call.discernment.raised
    /\ ~orch_call.lambda.raised
    /\ orch_result.pattern_analysis.authenticity_score = 50
    /\ orch_result.discernment_analysis.lie_score = 90
    /\ orch_result.unified_scores.component_scores.authenticity = 50

\* C5: a call in which no scorer fails feeds its scores into the tracker: the
\* store holds one more snapshot carrying the truth / fact / lie / coherence
\* scores and the composite resonance, and temporal_analysis is the tracker's
\* output, not the temporal fallback.
C5_TrackerIsFed ==
    (/\ analysis_count = 1
     /\ ~orch_call.lambda.raised
     /\ ~orch_call.discernment.raised
     /\ ~orch_call.pattern.raised) =>
        /\ Len(snapshots) = 1
        /\ snapshots[1].truth_score = orch_call.discernment.value.truth_score
        /\ snapshots[1].fact_score = orch_call.discernment.value.fact_score
        /\ snapshots[1].lie_score = orch_call.discernment.value.lie_score
        /\ snapshots[1].coherence_score = orch_call.discernment.value.coherence_score
        /\ snapshots[1].lambda_value =
              orch_call.lambda.value.metrics.composite_resonance
        /\ orch_result.temporal_analysis # _create_fallback_temporal

\* ---- claims about the scores
\* C4: each of the four composite indices of _unify_scores lies in [0, 10].
C4_IndicesInRange ==
    assess_out.returned = "assessment" =>
        \A i \in IndexNames :
            /\ assess_out.unified_scores[i] >= 0
            /\ assess_out.unified_scores[i] <= 10 * ONE

\* the scenario of C8; the drift magnitude, which the scenario leaves out, is 0
TruthAlignedScenario(in) ==
    /\ in.truth = 90
    /\ in.authenticity = 90
    /\ in.resonance = 800
    /\ in.coherence = 90
    /\ in.consistency = 9000
    /\ in.lie = 0
    /\ in.manipulation = 0
    /\ in.drift_magnitude = 0

\* C8: overall_status is the first matching row of: TRUTH_ALIGNED if
\* truth_index >= 8 and risk_index < 2; TRUTH_SEEKING if truth_index >= 6 and
\* risk_index < 3; NEUTRAL if truth_index >= 4 and risk_index < 5; HIGH_RISK if
\* risk_index >= 7; CAUTION_ADVISED if risk_index >= 5; otherwise UNCLEAR.
\* truth 0.9, authenticity 0.9, resonance 8, coherence 0.9, consistency 0.9,
\* lie 0, manipulation 0 gives TRUTH_ALIGNED with risk level MINIMAL.
C8_StatusDecisionTable ==
    assess_out.returned = "assessment" =>
        LET t == assess_out.unified_scores.truth_index
            r == assess_out.unified_scores.risk_index
            s == assess_out.overall_status
            row1 == t >= 8 * ONE /\ r < 2 * ONE
            row2 == t >= 6 * ONE /\ r < 3 * ONE
            row3 == t >= 4 * ONE /\ r < 5 * ONE
            row4 == r >= 7 * ONE
            row5 == r >= 5 * ONE
        IN /\ row1 => s = "TRUTH_ALIGNED"
           /\ (~row1 /\ row2) => s = "TRUTH_SEEKING"
           /\ (~row1 /\ ~row2 /\ row3) => s = "NEUTRAL"
           /\ (~row1 /\ ~row2 /\ ~row3 /\ row4) => s = "HIGH_RISK"
           /\ (~row1 /\ ~row2 /\ ~row3 /\ ~row4 /\ row5) => s = "CAUTION_ADVISED"
           /\ (~row1 /\ ~row2 /\ ~row3 /\ ~row4 /\ ~row5) => s = "UNCLEAR"
           /\ TruthAlignedScenario(assess_in) =>
                 (s = "TRUTH_ALIGNED" /\ assess_out.risk_level = "MINIMAL")

C8_Witness ==
    /\ assess_out.returned = "assessment"
    /\ TruthAlignedScenario(assess_in)
    /\ assess_out.overall_status = "TRUTH_ALIGNED"
    /\ assess_out.risk_level = "MINIMAL"
    /\ assess_out.unified_scores.truth_index = 10 * ONE
    /\ assess_out.unified_scores.risk_index = 2000

\* C9: risk_level is a function of risk_index alone: CRITICAL if
\* risk_index >= 7, HIGH if >= 5, MEDIUM if >= 3, LOW if >= 1, otherwise
\* MINIMAL; every risk_index in [0, 10] has exactly one label.
C9_RiskLevelFromRiskIndex ==
    assess_out.returned = "assessment" =>
        LET r == assess_out.unified_scores.risk_index
            l == assess_out.risk_level
        IN /\ r >= 0 /\ r <= 10 * ONE
           /\ l \in RiskLabels
           /\ l = "CRITICAL" <=> r >= 7 * ONE
           /\ l = "HIGH" <=> (r >= 5 * ONE /\ r < 7 * ONE)
           /\ l = "MEDIUM" <=> (r >= 3 * ONE /\ r < 5 * ONE)
           /\ l = "LOW" <=> (r >= 1 * ONE /\ r < 3 * ONE)
           /\ l = "MINIMAL" <=> r < 1 * ONE

\* a risk_index of exactly 5 is HIGH whatever the truth_index says
C9_Witness ==
    /\ assess_out.returned = "assessment"
    /\ assess_out.unified_scores.risk_index = 5 * ONE
    /\ assess_out.risk_level = "HIGH"
    /\ assess_out.unified_scores.truth_index >= 8 * ONE
    /\ assess_out.overall_status = "CAUTION_ADVISED"

\* the scenario of C10
CriticalScenario(in) ==
    /\ in.manipulation = 90
    /\ in.lie = 90
    /\ in.authenticity = 10
    /\ in.drift_magnitude = 8000

\* C10: whenever risk_level is HIGH or CRITICAL the warnings list holds at
\* least one string; manipulation 0.9, lie 0.9, authenticity 0.1,
\* drift_magnitude 0.8 is CRITICAL with at least one warning.
C10_HighRiskWarns ==
    assess_out.returned = "assessment" =>
        /\ assess_out.risk_level \in { "HIGH", "CRITICAL" } =>
              Len(assess_out.warnings) >= 1
        /\ CriticalScenario(assess_in) =>
              /\ assess_out.risk_level = "CRITICAL"
              /\ Len(assess_out.warnings) >= 1

C10_Witness ==
    /\ assess_out.returned = "assessment"
    /\ CriticalScenario(assess_in)
    /\ assess_out.risk_level = "CRITICAL"
    /\ assess_out.unified_scores.risk_index = 89000
    /\ Len(assess_out.warnings) >= 3

\* ---- claims about a session
\* an analyze_comprehensive call was made in this step
AnalyzeComprehensiveStep == analysis_history' # analysis_history

\* C11: the sequence number in analysis_id increases by exactly one per
\* analyze_comprehensive call, so the identifiers in analysis_history are
\* strictly increasing in call order and pairwise distinct; the counter
\* advances on calls in which scorers failed too.
C11_IdentifiersIncrease ==
    [][AnalyzeComprehensiveStep =>
          /\ analysis_count' = analysis_count + 1
          /\ orch_result'.analysis_id = analysis_count + 1
          /\ analysis_history # << >> =>
                orch_result'.analysis_id =
                    analysis_history[Len(analysis_history)].analysis_id + 1
          /\ \A i, j \in DOMAIN analysis_history' :
                i < j => analysis_history'[i].analysis_id
                            < analysis_history'[j].analysis_id]_vars

\* the second call follows one in which every scorer failed
C11_Witness ==
    /\ analysis_count = 2
    /\ Len(analysis_history) = 2
    /\ analysis_history[1].analysis_id = 1
    /\ analysis_history[1].lambda_analysis.status = "ERROR"
    /\ analysis_history[1].system_summary = [status |-> "unavailable"]
    /\ analysis_history[2].analysis_id = 2

\* the sum of the values of a function with a finite domain
RECURSIVE SumOver(_, _)
SumOver(f, keys) ==
    IF keys = {} THEN 0
    ELSE LET k == CHOOSE x \in keys : TRUE IN f[k] + SumOver(f, keys \ {k})

\* C12: analysis_history is append-only: a call appends exactly one result at
\* the end and earlier results are never removed or reordered, so
\* len(analysis_history) = analysis_count; get_statistics taken after n calls
\* reports total_analyses = n with the risk_distribution counts and the
\* status_distribution counts each summing to n, and the 'No analyses
\* performed yet' response exactly when n = 0.
C12_HistoryAppendOnly ==
    [][/\ Len(analysis_history') \in { Len(analysis_history), Len(analysis_history) + 1 }
       /\ SubSeq(analysis_history', 1, Len(analysis_history)) = analysis_history
       /\ Len(analysis_history') = analysis_count'
       /\ orch_stats'.returned = "statistics" =>
             LET v == orch_stats'.value
                 n == orch_stats'.calls_before
             IN /\ v.total_analyses = n
                /\ ("message" \in DOMAIN v) <=> (n = 0)
                /\ n = 0 => v.message = "No analyses performed yet"
                /\ n > 0 =>
                      /\ SumOver(v.risk_distribution, DOMAIN v.risk_distribution) = n
                      /\ SumOver(v.status_distribution, DOMAIN v.status_distribution) = n]_vars

\* statistics over a CRITICAL and a MINIMAL analysis
C12_Witness ==
    /\ orch_stats.returned = "statistics"
    /\ orch_stats.calls_before = 2
    /\ analysis_count = 2
    /\ orch_stats.value.total_analyses = 2
    /\ orch_stats.value.risk_distribution["MINIMAL"] = 1
    /\ orch_stats.value.risk_distribution["CRITICAL"] = 1
    /\ Cardinality(DOMAIN orch_stats.value.status_distribution) = 2

\* C13: get_statistics on the tracker and on the orchestrator is a pure query:
\* it leaves the snapshot store, the theme index, the stability history, the
\* analysis history and the analysis counter unchanged, and a second call with
\* no record / analyze call in between returns what the first returned.
C13_StatisticsArePure ==
    [][/\ tracker_stats' # tracker_stats =>
             /\ UNCHANGED << tvars, ovars >>
             /\ (/\ tracker_stats.returned = "statistics"
                 /\ tracker_stats.calls_before = Len(calls)) =>
                    tracker_stats'.value = tracker_stats.value
       /\ orch_stats' # orch_stats =>
             /\ UNCHANGED << tvars, ovars >>
             /\ (/\ orch_stats.returned = "statistics"
                 /\ orch_stats.calls_before = analysis_count) =>
                    orch_stats'.value = orch_stats.value
       /\ (/\ tracker_stats'.returned = "statistics"
           /\ tracker_stats'.calls_before = Len(calls')) =>
              tracker_stats'.value.total_snapshots = Len(snapshots')
       /\ (/\ orch_stats'.returned = "statistics"
           /\ orch_stats'.calls_before = analysis_count') =>
              orch_stats'.value.total_analyses = Len(analysis_history')]_vars

\* both components were queried after their last call, with history to report
C13_Witness ==
    /\ tracker_stats.returned = "statistics"
    /\ tracker_stats.calls_before = 2
    /\ Len(calls) = 2
    /\ stability_history # << >>
    /\ tracker_stats.value.stability.current = stability_history[Len(stability_history)]
    /\ orch_stats.returned = "statistics"
    /\ orch_stats.calls_before = 1
    /\ analysis_count = 1

\* C14: the tracker and the orchestrator each offer a reset operation that
\* clears all their retained state (tracker: snapshot store, theme index,
\* stability history; orchestrator: analysis history), after which
\* get_statistics returns the no-data response; resetting one component
\* leaves the other's state unchanged.
C14_ResetClears ==
    /\ Get(temporal_result, "call", "none") = "reset" =>
          /\ temporal_result.returned # "exception"
          /\ snapshots = << >>
          /\ DOMAIN theme_evolution = {}
          /\ stability_history = << >>
          /\ TrackerStatistics(snapshots, theme_evolution, stability_history)
                = [total_snapshots |-> 0, message |-> "No temporal data recorded yet"]
    /\ Get(orch_result, "call", "none") = "reset" =>
          /\ orch_result.returned # "exception"
          /\ analysis_history = << >>
          /\ OrchestratorStatistics(analysis_history)
                = [total_analyses |-> 0, message |-> "No analyses performed yet"]

\* ---- claims about two trackers
\* the outputs of a tracker call, timestamps left out
OutputsOf(r) ==
    IF r.returned = "analysis"
    THEN [consistency_score |-> r.consistency_score,
          drift_magnitude |-> r.drift_magnitude,
          drift_direction |-> r.drift_direction,
          evolution_trajectory |-> r.evolution_trajectory,
          stability_index |-> r.stability_index,
          anomalous_changes |-> r.anomalous_changes,
          trend_analysis |-> r.trend_analysis,
          predictions |-> r.predictions,
          recommendations |-> r.recommendations]
    ELSE [returned |-> r.returned]

\* C15: two freshly constructed trackers fed the same sequence of (text,
\* scores, themes) inputs produce, call by call, identical consistency, drift
\* magnitude and direction, trajectory, stability, anomaly, trend and
\* prediction outputs; only the timestamps differ.
C15_TrackersAgree ==
    /\ OutputsOf(temporal_result) = OutputsOf(twin.result)
    /\ stability_history = twin.stability_history
    /\ Len(snapshots) = Len(twin.snapshots)
    /\ \A i \in DOMAIN snapshots :
          [snapshots[i] EXCEPT !.timestamp = 0]
              = [twin.snapshots[i] EXCEPT !.timestamp = 0]

\* a third analysis with trends and a prediction, made at different times
C15_Witness ==
    /\ Len(calls) = 3
    /\ temporal_result.returned = "analysis"
    /\ "next_lambda" \in DOMAIN temporal_result.predictions
    /\ temporal_result.evolution_trajectory = "volatile"
    /\ twin.result.evolution_trajectory = "volatile"
    /\ twin.clock = 5
    /\ twin.result.current_snapshot.timestamp # temporal_result.current_snapshot.timestamp

\* ---- claims about the snapshot store
\* C16: no tracker operation changes a snapshot already in the store:
\* record_snapshot and analyze_temporal_coherence append one snapshot at the
\* back and, only when the capacity is exceeded, drop the oldest from the
\* front; the retained snapshots keep their fields and their relative order.
C16_SnapshotsNeverMutated ==
    [][calls' # calls =>
          LET n == Len(snapshots)
              m == Len(snapshots')
              evicted == n + 1 - m
          IN /\ evicted \in { 0, 1 }
             /\ evicted = 1 <=> n = max_history
             /\ m <= max_history
             /\ \A i \in 1..(m - 1) : snapshots'[i] = snapshots[i + evicted]
             /\ snapshots'[m] = SnapshotOf(calls'[Len(calls')], Len(calls'))]_vars

\* a full store of two took a third snapshot and let the first one go
C16_Witness ==
    /\ max_history = 2
    /\ Len(calls) = 3
    /\ Len(snapshots) = 2
    /\ snapshots[1] = SnapshotOf(calls[2], 2)
    /\ snapshots[2] = SnapshotOf(calls[3], 3)
    /\ calls[2] # calls[3]

\* ---- claims about the drift
\* the direction the rules of the drift give to the deltas from snapshot
\* earliest to snapshot current, first matching rule first
DirectionBetween(earliest, current) ==
    LET truth_delta == current.truth_score - earliest.truth_score
        lie_delta == current.lie_score - earliest.lie_score
        lambda_delta == current.lambda_value - earliest.lambda_value
    IN CASE truth_delta > 20 /\ lie_delta < -10 -> "toward_truth"
         [] truth_delta < -20 /\ lie_delta > 10 -> "toward_deception"
         [] Abs(truth_delta) < 10 /\ Abs(lie_delta) < 10 -> "stable"
         [] lambda_delta > 30 -> "ascending"
         [] lambda_delta < -30 -> "descending"
         [] OTHER -> "oscillating"

\* the last tracker call was an analysis that compared with a window of history
ComparedWithWindow ==
    /\ temporal_result.returned = "analysis"
    /\ "window_size" \in DOMAIN temporal_result.metadata

\* three analyses with window_size 10 left the snapshots of the claim's
\* example: truth 0.8, 0.85, 0.2, lambda 5.2, 5.5, 1.2, lie rising at the end
DeclineScenario ==
    /\ ComparedWithWindow
    /\ temporal_result.metadata.window_size = 10
    /\ Len(snapshots) = 3
    /\ << snapshots[1].truth_score, snapshots[2].truth_score,
          snapshots[3].truth_score >> = << 80, 85, 20 >>
    /\ << snapshots[1].lambda_value, snapshots[2].lambda_value,
          snapshots[3].lambda_value >> = << 520, 550, 120 >>
    /\ snapshots[3].lie_score > snapshots[2].lie_score
    /\ snapshots[3].lie_score > snapshots[1].lie_score

\* C17: the drift direction of an analysis is decided from the deltas between
\* the current snapshot and the earliest snapshot of the comparison window,
\* by the first matching rule of toward_truth, toward_deception, stable,
\* ascending, descending, oscillating; in the example of the three snapshots
\* the third analysis reports toward_deception and a declining or volatile
\* trajectory.
C17_DriftFromEarliestOfWindow ==
    /\ ComparedWithWindow =>
            LET window == LastN(snapshots, temporal_result.metadata.window_size)
            IN /\ temporal_result.current_snapshot = window[Len(window)]
               /\ temporal_result.drift_direction =
                      DirectionBetween(window[1], temporal_result.current_snapshot)
    /\ DeclineScenario =>
          /\ temporal_result.drift_direction = "toward_deception"
          /\ temporal_result.evolution_trajectory \in { "declining", "volatile" }

\* the example's third analysis has been made; the earliest snapshot of its
\* window is not the one before the current snapshot
C17_Witness ==
    /\ DeclineScenario
    /\ temporal_result.drift_direction = "toward_deception"
    /\ snapshots[1] # snapshots[2]

\* ---- claims about the recommendations
\* C18: the recommendations list of every analysis result is deduplicated: no
\* string occurs in it more than once, also when the pattern scorer and the
\* temporal scorer both fall back and contribute the same text.
C18_RecommendationsDeduplicated ==
    orch_result.returned = "result" =>
        \A i, j \in DOMAIN orch_result.recommendations :
            orch_result.recommendations[i] = orch_result.recommendations[j] => i = j

\* ---- claims about short windows
\* the number of snapshots the last analysis compared
WindowLength == Len(LastN(snapshots, temporal_result.metadata.window_size))

DirectionLabels ==
    { "toward_truth", "toward_deception", "stable", "ascending", "descending",
      "oscillating" }

TrajectoryLabels == { "awakening", "declining", "volatile", "stable" }

InsufficientData == [status |-> "insufficient_data"]

\* C19: when the comparison window holds exactly 2 snapshots the analysis
\* reports evolution_trajectory 'insufficient_data' and trend_analysis and
\* predictions of status 'insufficient_data', while consistency, drift and
\* stability are still computed; from 3 window snapshots on the trajectory,
\* the trends and the prediction are computed.
C19_SentinelsForShortWindows ==
    ComparedWithWindow =>
        /\ WindowLength = 2 =>
              /\ temporal_result.evolution_trajectory = "insufficient_data"
              /\ temporal_result.trend_analysis = InsufficientData
              /\ temporal_result.predictions = InsufficientData
              /\ temporal_result.consistency_score \in 0..ONE
              /\ temporal_result.drift_magnitude \in Nat
              /\ temporal_result.drift_direction \in DirectionLabels
              /\ temporal_result.stability_index \in 0..ONE
        /\ WindowLength >= 3 =>
              /\ temporal_result.evolution_trajectory \in TrajectoryLabels
              /\ DOMAIN temporal_result.trend_analysis = { "truth", "lambda", "coherence" }
              /\ "next_lambda" \in DOMAIN temporal_result.predictions

\* an analysis over a window of exactly two different snapshots measured a
\* drift and still has no trajectory
C19_Witness ==
    /\ ComparedWithWindow
    /\ WindowLength = 2
    /\ Len(snapshots) >= 2
    /\ temporal_result.drift_magnitude > 0
    /\ temporal_result.evolution_trajectory = "insufficient_data"
    /\ temporal_result.predictions = InsufficientData

\* ---- claims about the anomalies
\* the snapshots of the window that came before the current one, at most the
\* 5 most recent of them
PriorPopulation(window) == LastN(FirstN(window, Len(window) - 1), 5)

Reported(type) ==
    \E i \in DOMAIN temporal_result.anomalous_changes :
        temporal_result.anomalous_changes[i].type = type

\* C20: the population against whose mean and standard deviation the current
\* truth score and lambda value are compared holds only prior snapshots, at
\* most the 5 most recent before the current one, for every window length: an
\* anomaly is reported exactly when the current value lies more than 2
\* standard deviations from the mean of those prior snapshots.
C20_AnomaliesAgainstPriorSnapshots ==
    (ComparedWithWindow /\ WindowLength >= 2) =>
        LET window == LastN(snapshots, temporal_result.metadata.window_size)
            prior == PriorPopulation(window)
            current == temporal_result.current_snapshot
        IN /\ Reported("Truth Score Anomaly") <=>
                  Deviates(current.truth_score,
                           [i \in DOMAIN prior |-> prior[i].truth_score])
           /\ Reported("Lambda Anomaly") <=>
                  Deviates(current.lambda_value,
                           [i \in DOMAIN prior |-> prior[i].lambda_value])

\* ---- claims about degenerate input
\* the text of the call has no words and its scores mapping has no keys
DegenerateInput(in) == in.text = << >> /\ in.scores = ScoresNone

\* C21: record_snapshot and analyze_temporal_coherence never raise on
\* degenerate input: for a text without words, a scores mapping with missing
\* keys and windows of identical snapshots (zero variance) every division is
\* guarded and a result is returned.
C21_NeverRaisesOnDegenerateInput ==
    calls # << >> =>
        /\ temporal_result.returned \in { "snapshot", "analysis" }
        /\ DegenerateInput(calls[Len(calls)]) =>
              temporal_result.current_snapshot.semantic_signature = [d \in {} |-> 0]

\* three calls with an empty text and no scores ended in an analysis over a
\* window of snapshots that differ in nothing but their timestamps
C21_Witness ==
    /\ Len(calls) = 3
    /\ \A i \in 1..3 : DegenerateInput(calls[i])
    /\ ComparedWithWindow
    /\ WindowLength = 3
    /\ temporal_result.stability_index = ONE
    /\ temporal_result.anomalous_changes = << >>

\* ---- claims about the signature
\* the number of words of text that the lexicon of dimension d holds
Occurrences(text, d) ==
    Cardinality({ i \in DOMAIN text : Lower(text[i]) \in Lexicon[d] })

\* the signature of a snapshot whose text has words maps each of the 7
\* dimensions to occurrences / words
HasSevenDensities(snapshot) ==
    /\ DOMAIN snapshot.semantic_signature = { DimSeq[i] : i \in DOMAIN DimSeq }
    /\ Cardinality(DOMAIN snapshot.semantic_signature) = 7
    /\ \A d \in DOMAIN snapshot.semantic_signature :
          LET density == snapshot.semantic_signature[d]
          IN /\ density * Len(snapshot.text) <= Occurrences(snapshot.text, d) * ONE
             /\ (density + 1) * Len(snapshot.text) > Occurrences(snapshot.text, d) * ONE

\* C22 as stated: every snapshot's signature maps each of the 7 dimensions to
\* its density, and for a text with no words all 7 dimensions map to 0.
C22_Original ==
    \A i \in DOMAIN snapshots :
        IF snapshots[i].text # << >> THEN HasSevenDensities(snapshots[i])
        ELSE /\ DOMAIN snapshots[i].semantic_signature = DOMAIN Lexicon
             /\ \A d \in DOMAIN Lexicon : snapshots[i].semantic_signature[d] = 0

\* C22: the signature of every snapshot whose text has words maps each of the
\* 7 fixed dimensions to its density; for a text with no words the signature
\* is the empty mapping, with no entry for any dimension.
C22_EmptyTextHasEmptySignature ==
    \A i \in DOMAIN snapshots :
        IF snapshots[i].text # << >> THEN HasSevenDensities(snapshots[i])
        ELSE DOMAIN snapshots[i].semantic_signature = {}

\* the store holds a snapshot of a text without words next to one whose text
\* has a word of the truth lexicon
C22_Witness ==
    /\ \E i \in DOMAIN snapshots : snapshots[i].text = << >>
    /\ \E i \in DOMAIN snapshots :
          /\ snapshots[i].text # << >>
          /\ snapshots[i].semantic_signature["truth_density"] > 0

\* ---- claims about the stability test
\* the last five calls on the tracker carried the scores of the stability test
FiveSteadyCalls ==
    /\ Len(calls) >= 5
    /\ \A i \in (Len(calls) - 4)..Len(calls) : calls[i].scores = ScoresSteady
    /\ temporal_result.returned = "analysis"

\* C23: after five consecutive analyze_temporal_coherence calls on the shared
\* module-level tracker with identical scores (truth 0.8, fact 0.5, lie 0.1,
\* coherence 0.9, lambda 5.0) the fifth result's stability_index is greater
\* than 0.6, whatever calls were made on that tracker before.
C23_FiveSteadyCallsAreStable ==
    FiveSteadyCalls => temporal_result.stability_index > 6000

\* ---- claims about the clipping
\* the weighted sums of the three indices, in ten-thousandths, from the scores
\* handed to the scoring functions
TruthSum ==
    300 * assess_in.truth + 250 * assess_in.authenticity + 30 * assess_in.resonance
    + 200 * assess_in.coherence + 2 * assess_in.consistency
    - 200 * assess_in.lie - 300 * assess_in.manipulation

\* the pattern result carries no structural_integrity, which then counts 0.5
IntegritySum ==
    300 * assess_in.coherence + 300 * 50 + 2 * assess_in.consistency
    + 2 * assess_in.stability

RiskSum ==
    400 * assess_in.manipulation + 300 * assess_in.lie
    + 200 * (100 - assess_in.authenticity) + assess_in.drift_magnitude

\* index is sum clipped to the scale 0..10
ClippedTo(index, sum) ==
    /\ sum < 0 => index = 0
    /\ sum > 100000 => index = 100000
    /\ (sum >= 0 /\ sum <= 100000) => index = sum

\* C24: truth_index, integrity_index and risk_index are clipped, not wrapped
\* or scaled: each is 0 when its weighted sum is below 0, 10 when the sum is
\* above 10 and the weighted sum itself otherwise, with the weights
\* 3.0 truth + 2.5 authenticity + 0.3 resonance + 2.0 coherence
\* + 2.0 consistency - 2.0 lie - 3.0 manipulation for truth_index,
\* 3.0 coherence + 3.0 structural_integrity + 2.0 consistency + 2.0 stability
\* for integrity_index and 4.0 manipulation + 3.0 lie + 2.0 (1 - authenticity)
\* + 1.0 drift_magnitude for risk_index.
C24_IndicesAreClipped ==
    assess_out.returned = "assessment" =>
        /\ ClippedTo(assess_out.unified_scores.truth_index, TruthSum)
        /\ ClippedTo(assess_out.unified_scores.integrity_index, IntegritySum)
        /\ ClippedTo(assess_out.unified_scores.risk_index, RiskSum)

\* one assessment whose truth sum lies below 0, whose risk sum lies above 10
\* and whose integrity sum lies inside the scale
C24_Witness ==
    /\ assess_out.returned = "assessment"
    /\ TruthSum < 0 /\ assess_out.unified_scores.truth_index = 0
    /\ RiskSum > 100000 /\ assess_out.unified_scores.risk_index = 100000
    /\ IntegritySum > 0 /\ IntegritySum < 100000
    /\ assess_out.unified_scores.integrity_index = IntegritySum

\* ---- claims about concurrent callers
\* every finished analysis of a caller took a window that ends with the
\* snapshot that caller recorded
WindowsEndWithOwnSnapshot ==
    \A t \in Callers :
        (threads[t].pc = "returned" /\ "recent_snapshots" \in DOMAIN threads[t]) =>
            threads[t].recent_snapshots[Len(threads[t].recent_snapshots)]
                = threads[t].current_snapshot

\* no two callers hold the same analysis_id
IdentifiersDiffer ==
    \A t, u \in Callers :
        (t # u /\ "analysis_id" \in DOMAIN threads[t]
               /\ "analysis_id" \in DOMAIN threads[u]) =>
            threads[t].analysis_id # threads[u].analysis_id

\* C25: concurrent calls on one tracker cannot interleave inconsistently: when
\* two analyze_temporal_coherence calls run interleaved at statement
\* granularity each computes from a window whose last element is the snapshot
\* that same call recorded, and two interleaved analyze_comprehensive calls
\* never obtain the same analysis_id.
C25_NoInconsistentInterleaving ==
    WindowsEndWithOwnSnapshot /\ IdentifiersDiffer

\* ---- claims about status and risk level together
\* C26: status and risk level are consistent in every result: overall_status
\* is HIGH_RISK exactly when risk_level is CRITICAL, CAUTION_ADVISED exactly
\* when risk_level is HIGH, TRUTH_ALIGNED only when risk_level is MINIMAL or
\* LOW, and UNCLEAR exactly when truth_index < 4 and risk_index < 5.
C26_StatusAgreesWithRiskLevel ==
    assess_out.returned = "assessment" =>
        /\ assess_out.overall_status = "HIGH_RISK" <=> assess_out.risk_level = "CRITICAL"
        /\ assess_out.overall_status = "CAUTION_ADVISED" <=> assess_out.risk_level = "HIGH"
        /\ assess_out.overall_status = "TRUTH_ALIGNED" =>
              assess_out.risk_level \in { "MINIMAL", "LOW" }
        /\ assess_out.overall_status = "UNCLEAR" <=>
              (assess_out.unified_scores.truth_index < 4 * ONE
               /\ assess_out.unified_scores.risk_index < 5 * ONE)

\* an assessment whose risk_index is exactly 7.0: HIGH_RISK and CRITICAL
C26_Witness ==
    /\ assess_out.returned = "assessment"
    /\ assess_out.unified_scores.risk_index = 7 * ONE
    /\ assess_out.overall_status = "HIGH_RISK"
    /\ assess_out.risk_level = "CRITICAL"

\* ---- claims about the baseline result
\* an analyze call was made in this step on a store that held a snapshot
AnalyzeOnNonEmptyStore ==
    /\ snapshots # << >>
    /\ calls' # calls
    /\ temporal_result'.returned = "analysis"

MaxWindowCalls == 3         \* analyses made when the window is studied

\* window_size as a caller may pass it: none, fewer than a trajectory needs,
\* and the default
AnyWindowSizes == {0, 1, 2, 10}

\* a caller that only analyzes, with a window size of its choice
WindowNext ==
    \E in \in Inputs, w \in AnyWindowSizes :
        /\ Len(calls) < MaxWindowCalls
        /\ TrackerAnalyze(in, w)
        /\ UNCHANGED << ovars, avars, svars, twin, threads >>

SpecWindows == Init /\ [][WindowNext]_vars

\* recent_snapshots = list(self.snapshots)[-window_size:] of the last analysis
WindowOfLastAnalysis ==
    LastN(snapshots, temporal_result.metadata.window_size)

\* window is the end of store
IsSuffix(window, store) ==
    /\ Len(window) <= Len(store)
    /\ window = SubSeq(store, Len(store) - Len(window) + 1, Len(store))

\* C28: for every non-negative window_size, the comparison window of an
\* analysis has at most window_size snapshots, is a suffix of the store, and
\* ends with the snapshot recorded by that call
C28_WindowHasAtMostWindowSize ==
    ComparedWithWindow =>
        /\ Len(WindowOfLastAnalysis) <= temporal_result.metadata.window_size
        /\ IsSuffix(WindowOfLastAnalysis, snapshots)
        /\ WindowOfLastAnalysis # << >>
        /\ WindowOfLastAnalysis[Len(WindowOfLastAnalysis)] =
               temporal_result.current_snapshot

\* ------------------------------------------------------ the theme index
MaxThemeCalls == 4          \* tracker calls made when the themes are studied

\* inputs that differ in their scores and in the themes they carry
ThemeInputs ==
    { [text |-> << "Truth", "and", "Love", "guide" >>, scores |-> ScoresHigh,
       themes |-> << >>],
      [text |-> << "deception", "against", "truth" >>, scores |-> ScoresLow,
       themes |-> << "power", "control", "fear" >>],
      [text |-> << "power", "over", "truth" >>, scores |-> ScoresWavering,
       themes |-> << "power" >>] }

\* every theme a caller passes
Themes == { "power", "control", "fear" }

\* a caller that records, analyzes and asks for the statistics
ThemesNext ==
    \/ \E in \in ThemeInputs :
          /\ Len(calls) < MaxThemeCalls
          /\ record_snapshot(in)
          /\ UNCHANGED << ovars, avars, svars, twin, threads >>
    \/ \E in \in ThemeInputs :
          /\ Len(calls) < MaxThemeCalls
          /\ TrackerAnalyze(in, DefaultWindowSize)
          /\ UNCHANGED << ovars, avars, svars, twin, threads >>
    \/ tracker_get_statistics

SpecThemes == Init /\ [][ThemesNext]_vars

\* the number of calls so far that passed theme t
TimesPassed(t) ==
    Cardinality({ i \in DOMAIN calls :
                    \E j \in DOMAIN calls[i].themes : calls[i].themes[j] = t })

\* the calls whose snapshots the store still holds
RetainedCalls == LastN(calls, Len(snapshots))

\* the average of a score over the retained calls, in ten-thousandths
RetainedAverage(key) ==
    ScaledDiv(SumSeq([i \in DOMAIN RetainedCalls |->
                          Get(RetainedCalls[i].scores, key, 0)]),
              Len(RetainedCalls))

\* get_statistics was the last call made and had snapshots to report on
StatisticsAreCurrent ==
    /\ tracker_stats.returned = "statistics"
    /\ tracker_stats.calls_before = Len(calls)
    /\ snapshots # << >>

\* C29: the theme index is not bounded by the store capacity: every theme has
\* as many entries in theme_evolution as it was passed to record_snapshot since
\* construction, evicted snapshots included; get_statistics reports the theme
\* counts on that basis and the score averages over the retained snapshots only
C29_ThemeIndexCountsEveryOccurrence ==
    /\ \A t \in Themes : Len(Get(theme_evolution, t, << >>)) = TimesPassed(t)
    /\ DOMAIN theme_evolution = { t \in Themes : TimesPassed(t) > 0 }
    /\ StatisticsAreCurrent =>
          /\ tracker_stats.value.theme_tracking.most_recurring =
                 { << t, TimesPassed(t) >> : t \in DOMAIN theme_evolution }
          /\ tracker_stats.value.total_snapshots = Len(snapshots)
          /\ tracker_stats.value.averages.truth = RetainedAverage("truth")
          /\ tracker_stats.value.averages.lambda = RetainedAverage("lambda")
          /\ tracker_stats.value.averages.coherence = RetainedAverage("coherence")

\* a tracker of capacity 1 was passed "power" three times and then asked for
\* its statistics: the count is 3 while the averages are those of the last call
C29_Witness ==
    /\ max_history = 1
    /\ Len(snapshots) = 1
    /\ StatisticsAreCurrent
    /\ TimesPassed("power") = 3
    /\ << "power", 3 >> \in tracker_stats.value.theme_tracking.most_recurring
    /\ tracker_stats.value.averages.truth = 20 * 100
    /\ \E i \in DOMAIN calls : Get(calls[i].scores, "truth", 0) # 20

\* ---- claims about the predictions
\* the lambda values the last analysis extrapolated from
WindowLambdas ==
    [i \in DOMAIN WindowOfLastAnalysis |-> WindowOfLastAnalysis[i].lambda_value]

\* C30: the prediction status 'unable_to_predict' is unreachable: predictions
\* are extrapolated from at least 3 window snapshots indexed 0..n-1, whose
\* least-squares denominator n*sum(x^2) - (sum x)^2 is never zero, so every
\* analysis over 3 or more window snapshots returns a numeric next_lambda
C30_UnableToPredictIsUnreachable ==
    temporal_result.returned = "analysis" =>
        /\ Get(temporal_result.predictions, "status", "") # "unable_to_predict"
        /\ (ComparedWithWindow /\ Len(WindowOfLastAnalysis) >= 3) =>
              /\ LeastSquares(WindowLambdas)[2] > 0
              /\ DOMAIN temporal_result.predictions =
                     { "next_lambda", "confidence", "trend_direction",
                       "expected_change" }
              /\ temporal_result.predictions.next_lambda \in Int

\* the fifth analysis of the module tracker extrapolated a falling lambda over
\* five snapshots
C30_Witness ==
    /\ ComparedWithWindow
    /\ Len(WindowOfLastAnalysis) = 5
    /\ temporal_result.predictions.expected_change < 0
    /\ temporal_result.predictions.next_lambda \in Int
    /\ temporal_result.predictions.trend_direction = "decreasing"

====
